---- MODULE Spec2Model ----
(***************************************************************************)
(* Control plane of the WiredTiger KV engine (wiredtiger_kv_engine.cpp):   *)
(* the timestamp coordinator, the checkpoint thread, the journal flusher,  *)
(* recoverToStableTimestamp, the queue of deferred ident drops, the        *)
(* constructor and cleanShutdown.                                          *)
(*                                                                         *)
(* Three groups of state are modelled.  Spec runs the calls of the         *)
(* timestamp coordinator, CkptSpec adds the checkpoint thread and RtsSpec  *)
(* runs recoverToStableTimestamp with both threads; they leave the ident   *)
(* state alone.  DropSpec runs the ident manager and leaves the timestamps *)
(* alone; LiveDropSpec is DropSpec with fairness of the running threads.   *)
(* StartSpec runs the constructor of the engine, with the key DB, the      *)
(* journal directory and the opens of the main instance, over several      *)
(* starts of the process; ShutdownSpec starts the three workers and runs   *)
(* cleanShutdown against them.  StableSpec follows the stable timestamp    *)
(* from the storage core to the checkpoint thread, across a restart of the *)
(* thread.  HdqSpec runs haveDropsQueued from two threads against the      *)
(* ident manager, BackupSpec the hot backup, RepairSpec repairIdent, and   *)
(* MigrateSpec the move of the key DB out of a legacy directory.           *)
(* OldestSpec runs setOldestTimestamp from two threads at once,            *)
(* LiveShutdownSpec the three workers and their shutdown() calls with      *)
(* fairness, LifetimeSpec cleanShutdown followed by the destructor, and    *)
(* OplogSpec the reference count of the oplog manager.                     *)
(***************************************************************************)
EXTENDS Integers, Sequences, FiniteSets, TLC

\* ------------------------------------------------------------------------
\* Bounds of the model
\* ------------------------------------------------------------------------
MaxTs == 3
MaxCallers == 2
NumIdents == 2
MaxQueue == 2

Ts == 0..MaxTs
Callers == 1..MaxCallers
Idents == 1..NumIdents

\* ------------------------------------------------------------------------
\* Program constants
\* ------------------------------------------------------------------------
\* Timestamp::kAllowUnstableCheckpointsSentinel is Timestamp(0, 1)
kAllowUnstableCheckpointsSentinel == 1
\* std::numeric_limits<uint64_t>::max(), as the largest value TLC can hold
UINT64_MAX == 2147483647
\* boost::none of getLocalSnapshot()
None == -1
\* errno values returned by WT_SESSION::drop
ENOENT == 2
EBUSY == 16
EINVAL == 22
\* dropSomeQueuedIdents: int numToDelete = 10
kNumToDelete == 10

VARIABLES
    \* configuration fixed at construction
    enableMajorityReadConcern,   \* serverGlobalParams.enableMajorityReadConcern
    hasKeyDB,                    \* _encryptionKeyDB != nullptr
    durable,                     \* _durable
    nCallers,                    \* number of caller threads that issue calls
    \* WiredTigerCheckpointThread
    stableTimestamp,             \* _stableTimestamp
    initialDataTimestamp,        \* _initialDataTimestamp
    firstStableCheckpointTaken,  \* _firstStableCheckpointTaken
    lastStableCheckpointTimestamp,
    ckptShuttingDown,            \* _shuttingDown of the checkpoint thread
    ckptPc,                      \* position of WiredTigerCheckpointThread::run
    ckptLoc,                     \* its locals and what the tick issued
    \* WiredTigerJournalFlusher
    jfShuttingDown,
    jfPc,
    \* WiredTigerKVEngine
    oldestTimestamp,             \* _oldestTimestamp
    cpc,                         \* position of each caller thread
    cloc,                        \* locals of the call each caller is in
    crashed,                     \* the process was aborted (invariant/fassert)
    \* history of the current checkpoint thread object
    wakes,                       \* _condvar.notify_one() calls of setStableTimestamp
    crossed,                     \* a setStableTimestamp call crossed initial data
    stableReceived,              \* the storage core has received the value of
                                 \* _stableTimestamp as stable_timestamp
    \* storage core: the tables of the main instance
    tables,                      \* ident -> "absent" | "idle" | "busy"
    \* ident manager
    identToDrop,                 \* _identToDrop
    dpc,                         \* position of each thread inside dropIdent
    dloc,                        \* locals of that dropIdent call
    rpPc,                        \* position of dropSomeQueuedIdents
    rpLoc,                       \* its locals
    \* history of the ident manager
    nextSeq,                     \* insertion rank of the next entry dropIdent enqueues
    dropReturnedOK,              \* ident -> dropIdent returned OK for the table
                                 \* and no drop of the table succeeded since
    \* engine facade: parameters of the constructor
    readOnly,                    \* _readOnly
    ephemeral,                   \* _ephemeral
    inRepairMode,                \* _inRepairMode
    encryptionParams,            \* encryptionGlobalParams of this start
    \* engine facade: state
    fileVersion,                 \* _fileVersion._startupVersion
    recoveryTimestamp,           \* _recoveryTimestamp
    conn,                        \* the connection to the main instance
    fs,                          \* the directories under the dbpath
    swShuttingDown,              \* _shuttingDown of the session sweeper
    swPc,                        \* position of WiredTigerSessionSweeper::run
    epc,                         \* position of the thread that constructs and
                                 \* shuts down the engine
    eloc,                        \* its locals
    starts,                      \* number of starts of the process so far
    \* history of the engine facade
    events,                      \* calls made on the storage core and the
                                 \* file system, in order
    \* operations of the running engine
    clock,                       \* _clockSource->now(), in milliseconds
    previousCheckedDropsQueued,  \* _previousCheckedDropsQueued
    identToDropMutex,            \* holder of _identToDropMutex
    hpc,                         \* position of each thread inside haveDropsQueued
    hloc,                        \* locals of that haveDropsQueued call
    fcPc,                        \* position of filterCursorsWithQueuedDrops
    lastGatePass,                \* time at which a haveDropsQueued call last got
                                 \* past the rate gate
    bk,                          \* hotBackup: position, locals, lock and calls
    sv,                          \* repairIdent: position, locals and calls
    mig,                         \* migration of the legacy key DB directory
    om                           \* _oplogManagerCount, its mutex, the callers of
                                 \* startOplogManager and haltOplogManager, and
                                 \* the oplog manager with the calls made on it

tsVars == <<enableMajorityReadConcern, hasKeyDB, durable, nCallers,
            stableTimestamp, initialDataTimestamp, firstStableCheckpointTaken,
            lastStableCheckpointTimestamp, ckptShuttingDown, ckptPc, ckptLoc,
            jfShuttingDown, jfPc, oldestTimestamp, cpc, cloc, crashed,
            wakes, crossed, stableReceived>>

dropVars == <<tables, identToDrop, dpc, dloc, rpPc, rpLoc, nextSeq, dropReturnedOK>>

paramVars == <<readOnly, ephemeral, inRepairMode, encryptionParams>>

engVars == <<paramVars, fileVersion, recoveryTimestamp, conn, fs, swShuttingDown, swPc,
             epc, eloc, starts, events>>

hdqVars == <<clock, previousCheckedDropsQueued, identToDropMutex, hpc, hloc, fcPc,
             lastGatePass>>

opVars == <<hdqVars, bk, sv, mig, om>>

vars == <<tsVars, dropVars, engVars, opVars>>

\* _keepDataHistory(serverGlobalParams.enableMajorityReadConcern)
keepDataHistory == enableMajorityReadConcern

Min(a, b) == IF a < b THEN a ELSE b

\* ------------------------------------------------------------------------
\* Locals of a call
\* ------------------------------------------------------------------------
IdleLoc ==
    [op |-> "none", ts |-> 0, force |-> FALSE, prev |-> 0, val |-> 0,
     pushes |-> <<>>, ret |-> "none",
     stable |-> 0, initData |-> 0,
     jfDown |-> FALSE, ckDown |-> FALSE, rolledBack |-> FALSE,
     stableRcv |-> FALSE]

IdleCkptLoc ==
    [stable |-> 0, initData |-> 0, stable2 |-> 0, kind |-> "none", caught |-> "none"]

\* ------------------------------------------------------------------------
\* Pure helpers of the timestamp coordinator
\* ------------------------------------------------------------------------

\* ClampOldest with the oplog comparison inverted: lags upwards
ClampOldest_M2(ts, force, oplogRead, localSnap) ==
    LET a == IF ~force /\ oplogRead # 0 /\ ts < oplogRead THEN oplogRead ELSE ts
    IN  IF ~force /\ localSnap # None /\ a > localSnap THEN localSnap ELSE a

\* ClampOldest without the local snapshot clamp
ClampOldest_M4(ts, force, oplogRead, localSnap) ==
    IF ~force /\ oplogRead # 0 /\ ts > oplogRead THEN oplogRead ELSE ts

\* ClampOldest that takes an oplog read timestamp of zero for a value
ClampOldest_M24(ts, force, oplogRead, localSnap) ==
    LET a == IF ~force /\ ts > oplogRead THEN oplogRead ELSE ts
    IN  IF ~force /\ localSnap # None /\ a > localSnap THEN localSnap ELSE a

\* ClampOldest that lags a forced value as well
ClampOldest_M25(ts, force, oplogRead, localSnap) ==
    LET a == IF oplogRead # 0 /\ ts > oplogRead THEN oplogRead ELSE ts
    IN  IF localSnap # None /\ a > localSnap THEN localSnap ELSE a

\* setOldestTimestamp: lag the value to the oplog read timestamp and to the
\* local snapshot timestamp unless force is set
ClampOldest(ts, force, oplogRead, localSnap) ==
    LET a == IF ~force /\ oplogRead # 0 /\ ts > oplogRead THEN oplogRead ELSE ts
    IN  IF ~force /\ localSnap # None /\ a > localSnap THEN localSnap ELSE a

\* setOldestTimestamp: the configuration string of the set_timestamp call,
\* "force=true,oldest_timestamp=%llx,commit_timestamp=%llx" with the value
\* printed twice when force is set and "oldest_timestamp=%llx" otherwise
OldestConfig(val, force) ==
    IF force THEN [kind |-> "oldest", val |-> val, commit |-> val, force |-> TRUE]
    ELSE [kind |-> "oldest", val |-> val]

\* WiredTigerCheckpointThread::setStableTimestamp: the condition under which
\* the first stable checkpoint is triggered
FirstStableCrossing(prevStable, initialData, stable) ==
    prevStable < initialData /\ stable >= initialData

\* ShouldTrigger without the one-shot flag
ShouldTrigger_M10(taken, prevStable, initialData, stable) ==
    FirstStableCrossing(prevStable, initialData, stable)

\* WiredTigerCheckpointThread::setStableTimestamp: whether this call notifies
ShouldTrigger(taken, prevStable, initialData, stable) ==
    ~taken /\ FirstStableCrossing(prevStable, initialData, stable)

\* CheckpointBranch with the sentinel test off by one
CheckpointBranch_M1(stable, initialData, mrc) ==
    IF initialData < 1 THEN "full"
    ELSE IF ~mrc THEN "fullNoMajority"
    ELSE IF stable < initialData THEN "skip"
    ELSE "stable"

\* WiredTigerCheckpointThread::run: the branch a tick takes on its samples
CheckpointBranch(stable, initialData, mrc) ==
    IF initialData <= 1 THEN "full"
    ELSE IF ~mrc THEN "fullNoMajority"
    ELSE IF stable < initialData THEN "skip"
    ELSE "stable"

\* CanRecover off by one
CanRecover_M9(stable, initialData) == stable + 1 >= initialData

\* WiredTigerCheckpointThread::canRecoverToStableTimestamp, after its invariant
CanRecover(stable, initialData) == stable >= initialData

\* ShouldStoreOldest without the comparison
ShouldStoreOldest_M3(cur, val) == TRUE

\* setOldestTimestamp: the non-forced update of _oldestTimestamp stores only
\* a larger value
ShouldStoreOldest(cur, val) == cur < val

\* the call has made _conn->set_timestamp("stable_timestamp=<ts>")
PushedStable(pushes, ts) ==
    \E k \in 1..Len(pushes) : pushes[k].kind = "stable" /\ pushes[k].val = ts

\* ------------------------------------------------------------------------
\* Initial state: the state after the constructor ran
\* ------------------------------------------------------------------------

\* The constructor seeds the checkpoint thread from the recovery timestamp:
\* setInitialDataTimestamp(rec); setStableTimestamp(rec), the latter through
\* the engine, which does nothing without data history.
InitTs(nc, recs, majorities, keyDBs, durables) ==
    \E rec \in recs, mrc \in majorities, kdb \in keyDBs, dur \in durables, fp \in BOOLEAN :
      LET seeded == rec # 0 /\ mrc IN
        /\ enableMajorityReadConcern = mrc
        /\ hasKeyDB = kdb
        /\ durable = dur
        /\ nCallers = nc
        /\ initialDataTimestamp = rec
        /\ stableTimestamp = (IF seeded THEN rec ELSE 0)
        /\ firstStableCheckpointTaken = (seeded /\ ShouldTrigger(FALSE, 0, rec, rec))
        /\ wakes = (IF seeded /\ ShouldTrigger(FALSE, 0, rec, rec) THEN 1 ELSE 0)
        /\ crossed = (seeded /\ FirstStableCrossing(0, rec, rec))
        /\ stableReceived = TRUE
        /\ oldestTimestamp = (IF seeded /\ ~fp THEN rec ELSE 0)
        /\ lastStableCheckpointTimestamp = 0
        /\ ckptShuttingDown = FALSE
        /\ ckptPc = "top"
        /\ ckptLoc = IdleCkptLoc
        /\ jfShuttingDown = FALSE
        /\ jfPc = (IF dur THEN "top" ELSE "null")
        /\ cpc = [c \in Callers |-> "idle"]
        /\ cloc = [c \in Callers |-> IdleLoc]
        /\ crashed = FALSE

\* ------------------------------------------------------------------------
\* WiredTigerCheckpointThread::run
\* ------------------------------------------------------------------------
CkptUnchanged ==
    UNCHANGED <<enableMajorityReadConcern, hasKeyDB, durable, nCallers,
                stableTimestamp, initialDataTimestamp, firstStableCheckpointTaken,
                ckptShuttingDown, jfShuttingDown, jfPc, oldestTimestamp,
                cpc, cloc, wakes, crossed, stableReceived, dropVars, opVars, engVars>>

\* CkptLoopTest that leaves the loop after a shutdown error
CkptLoopTest_M27 ==
    /\ ~crashed /\ ckptPc = "top"
    /\ ckptPc' = (IF ckptShuttingDown \/ ckptLoc.caught = "shutdown"
                   THEN "exited" ELSE "waiting")
    /\ ckptLoc' = IdleCkptLoc
    /\ UNCHANGED <<lastStableCheckpointTimestamp, crashed>>
    /\ CkptUnchanged

\* while (!_shuttingDown.load())
CkptLoopTest ==
    /\ ~crashed /\ ckptPc = "top"
    /\ ckptPc' = (IF ckptShuttingDown THEN "exited" ELSE "waiting")
    /\ ckptLoc' = IdleCkptLoc
    /\ UNCHANGED <<lastStableCheckpointTimestamp, crashed>>
    /\ CkptUnchanged

\* _condvar.wait_for returns (timeout or notification); _stableTimestamp.load()
CkptSampleStable ==
    /\ ~crashed /\ ckptPc = "waiting"
    /\ ckptPc' = "sampleInit"
    /\ ckptLoc' = [ckptLoc EXCEPT !.stable = stableTimestamp]
    /\ UNCHANGED <<lastStableCheckpointTimestamp, crashed>>
    /\ CkptUnchanged

\* _initialDataTimestamp.load()
CkptSampleInitialData ==
    /\ ~crashed /\ ckptPc = "sampleInit"
    /\ ckptPc' = "branch"
    /\ ckptLoc' = [ckptLoc EXCEPT !.initData = initialDataTimestamp]
    /\ UNCHANGED <<lastStableCheckpointTimestamp, crashed>>
    /\ CkptUnchanged

\* Outcomes of a checkpoint call: "ok"; "wce" when it returns WT_ROLLBACK
\* (write conflict); "shutdown" when the storage core surfaces a shutdown
\* error; "fatal" for every other non-zero return (invariantWTOK).
CheckpointOutcomes == {"ok", "wce", "shutdown", "fatal"}

\* What the tick is left with when a checkpoint call gives the outcome: the
\* exception the catch clauses of run receive, or the failed invariant
Caught(outcome) == IF outcome = "ok" THEN "none" ELSE outcome

\* The checkpoint a branch issues against the main instance
IssuedKind(branch) ==
    IF branch = "stable" THEN "stable"
    ELSE IF branch = "skip" THEN "skip"
    ELSE "full"

\* branches one to three of the tick
CkptBranchStep(outcome) ==
    LET b == CheckpointBranch(ckptLoc.stable, ckptLoc.initData, enableMajorityReadConcern) IN
    /\ ~crashed /\ ckptPc = "branch"
    /\ b # "stable"
    /\ IF b = "skip"
         THEN /\ outcome = "ok"
              /\ ckptPc' = "keydb"
              /\ ckptLoc' = [ckptLoc EXCEPT !.kind = IssuedKind(b)]
              /\ UNCHANGED <<lastStableCheckpointTimestamp, crashed>>
         ELSE /\ ckptLoc' = [ckptLoc EXCEPT !.kind = IssuedKind(b),
                                             !.caught = Caught(outcome)]
              /\ crashed' = (outcome = "fatal")
              /\ ckptPc' = (IF outcome = "ok" THEN "keydb" ELSE "top")
              /\ lastStableCheckpointTimestamp' =
                   (IF b = "fullNoMajority" /\ outcome = "ok"
                      THEN UINT64_MAX ELSE lastStableCheckpointTimestamp)
    /\ CkptUnchanged

\* branch four: auto stableTimestamp = _stableTimestamp.load()
CkptReloadStable ==
    LET b == CheckpointBranch(ckptLoc.stable, ckptLoc.initData, enableMajorityReadConcern) IN
    /\ ~crashed /\ ckptPc = "branch"
    /\ b = "stable"
    /\ ckptPc' = "stableCkpt"
    /\ ckptLoc' = [ckptLoc EXCEPT !.stable2 = stableTimestamp]
    /\ UNCHANGED <<lastStableCheckpointTimestamp, crashed>>
    /\ CkptUnchanged

\* CkptStableCheckpoint that publishes the stable timestamp it finds after
\* the checkpoint
CkptStableCheckpoint_M26(outcome) ==
    /\ ~crashed /\ ckptPc = "stableCkpt"
    /\ ckptLoc' = [ckptLoc EXCEPT !.kind = IssuedKind("stable"),
                                  !.caught = Caught(outcome)]
    /\ crashed' = (outcome = "fatal")
    /\ ckptPc' = (IF outcome = "ok" THEN "keydb" ELSE "top")
    /\ lastStableCheckpointTimestamp' =
         (IF outcome = "ok" THEN stableTimestamp ELSE lastStableCheckpointTimestamp)
    /\ CkptUnchanged

\* branch four: checkpoint("use_timestamp=true"), then publish
CkptStableCheckpoint(outcome) ==
    /\ ~crashed /\ ckptPc = "stableCkpt"
    /\ ckptLoc' = [ckptLoc EXCEPT !.kind = IssuedKind("stable"),
                                  !.caught = Caught(outcome)]
    /\ crashed' = (outcome = "fatal")
    /\ ckptPc' = (IF outcome = "ok" THEN "keydb" ELSE "top")
    /\ lastStableCheckpointTimestamp' =
         (IF outcome = "ok" THEN ckptLoc.stable2 ELSE lastStableCheckpointTimestamp)
    /\ CkptUnchanged

\* Do KeysDB checkpoint
CkptKeyDB(outcome) ==
    /\ ~crashed /\ ckptPc = "keydb"
    /\ outcome # "shutdown"
    /\ IF hasKeyDB
         THEN crashed' = (outcome = "fatal")
         ELSE outcome = "ok" /\ UNCHANGED crashed
    /\ ckptPc' = "top"
    /\ ckptLoc' = [ckptLoc EXCEPT !.caught = Caught(outcome)]
    /\ UNCHANGED lastStableCheckpointTimestamp
    /\ CkptUnchanged

CkptNext ==
    \/ CkptLoopTest
    \/ CkptSampleStable
    \/ CkptSampleInitialData
    \/ \E o \in CheckpointOutcomes : CkptBranchStep(o)
    \/ CkptReloadStable
    \/ \E o \in CheckpointOutcomes : CkptStableCheckpoint(o)
    \/ \E o \in CheckpointOutcomes : CkptKeyDB(o)

\* ------------------------------------------------------------------------
\* WiredTigerJournalFlusher::run
\* ------------------------------------------------------------------------
JfUnchanged ==
    UNCHANGED <<enableMajorityReadConcern, hasKeyDB, durable, nCallers,
                stableTimestamp, initialDataTimestamp, firstStableCheckpointTaken,
                lastStableCheckpointTimestamp, ckptShuttingDown, ckptPc, ckptLoc,
                jfShuttingDown, oldestTimestamp, cpc, cloc, crashed,
                wakes, crossed, stableReceived, dropVars, opVars, engVars>>

\* JfLoopTest that does not look at the flag
JfLoopTest_M33 ==
    /\ ~crashed /\ jfPc = "top"
    /\ jfPc' = "flush"
    /\ JfUnchanged

\* while (!_shuttingDown.load())
JfLoopTest ==
    /\ ~crashed /\ jfPc = "top"
    /\ jfPc' = (IF jfShuttingDown THEN "exited" ELSE "flush")
    /\ JfUnchanged

\* waitUntilDurable(false, false); sleepmillis(ms)
JfFlush ==
    /\ ~crashed /\ jfPc = "flush"
    /\ jfPc' = "top"
    /\ JfUnchanged

JfNext == JfLoopTest \/ JfFlush

\* ------------------------------------------------------------------------
\* Caller threads: calls into WiredTigerKVEngine
\* ------------------------------------------------------------------------
CallerUnchanged ==
    UNCHANGED <<enableMajorityReadConcern, hasKeyDB, durable, nCallers,
                ckptLoc, dropVars, opVars, engVars>>

Active(c) == ~crashed /\ c <= nCallers

Goto(c, pc) == cpc' = [cpc EXCEPT ![c] = pc]

\* a new call starts with fresh locals
Enter(c, op, pc, ts, force) ==
    /\ cpc' = [cpc EXCEPT ![c] = pc]
    /\ cloc' = [cloc EXCEPT ![c] = [IdleLoc EXCEPT !.op = op, !.ts = ts, !.force = force]]

\* the call returns to its caller
Return(c) ==
    /\ Active(c) /\ cpc[c] = "ret"
    /\ cpc' = [cpc EXCEPT ![c] = "idle"]
    /\ cloc' = [cloc EXCEPT ![c] = IdleLoc]
    /\ UNCHANGED <<stableTimestamp, initialDataTimestamp, firstStableCheckpointTaken,
                   lastStableCheckpointTimestamp, ckptShuttingDown, ckptPc,
                   jfShuttingDown, jfPc, oldestTimestamp, crashed, wakes, crossed, stableReceived>>
    /\ CallerUnchanged

\* WiredTigerKVEngine::setInitialDataTimestamp
SetInitialDataTimestamp(c, ts) ==
    /\ Active(c) /\ cpc[c] = "idle"
    /\ initialDataTimestamp' = ts
    /\ UNCHANGED <<cpc, cloc, stableTimestamp, firstStableCheckpointTaken,
                   lastStableCheckpointTimestamp, ckptShuttingDown, ckptPc,
                   jfShuttingDown, jfPc, oldestTimestamp, crashed, wakes, crossed, stableReceived>>
    /\ CallerUnchanged

\* SetStableTimestamp that goes to the checkpoint thread before the storage
\* core
SetStableTimestamp_M30(c, ts) ==
    /\ Active(c) /\ cpc[c] = "idle"
    /\ IF ~keepDataHistory \/ ts = 0
         THEN Enter(c, "setStable", "ret", ts, FALSE)
         ELSE Enter(c, "setStable", "ssSwap", ts, FALSE)
    /\ UNCHANGED <<stableTimestamp, initialDataTimestamp, firstStableCheckpointTaken,
                   lastStableCheckpointTimestamp, ckptShuttingDown, ckptPc,
                   jfShuttingDown, jfPc, oldestTimestamp, crashed, wakes, crossed,
                   stableReceived>>
    /\ CallerUnchanged

\* WiredTigerKVEngine::setStableTimestamp: the two early returns, then
\* _conn->set_timestamp("stable_timestamp=...")
SetStableTimestamp(c, ts) ==
    /\ Active(c) /\ cpc[c] = "idle"
    /\ IF ~keepDataHistory \/ ts = 0
         THEN Enter(c, "setStable", "ret", ts, FALSE)
         ELSE /\ cpc' = [cpc EXCEPT ![c] = "ssSwap"]
              /\ cloc' = [cloc EXCEPT ![c] =
                    [IdleLoc EXCEPT !.op = "setStable", !.ts = ts,
                                    !.pushes = <<[kind |-> "stable", val |-> ts]>>]]
    /\ UNCHANGED <<stableTimestamp, initialDataTimestamp, firstStableCheckpointTaken,
                   lastStableCheckpointTimestamp, ckptShuttingDown, ckptPc,
                   jfShuttingDown, jfPc, oldestTimestamp, crashed, wakes, crossed, stableReceived>>
    /\ CallerUnchanged

\* WiredTigerCheckpointThread::setStableTimestamp: _stableTimestamp.swap
SetStableSwap(c) ==
    /\ Active(c) /\ cpc[c] = "ssSwap"
    /\ cloc' = [cloc EXCEPT ![c].prev = stableTimestamp]
    /\ stableTimestamp' = cloc[c].ts
    /\ stableReceived' = PushedStable(cloc[c].pushes, cloc[c].ts)
    /\ Goto(c, "ssTrigger")
    /\ UNCHANGED <<initialDataTimestamp, firstStableCheckpointTaken,
                   lastStableCheckpointTimestamp, ckptShuttingDown, ckptPc,
                   jfShuttingDown, jfPc, oldestTimestamp, crashed, wakes, crossed>>
    /\ CallerUnchanged

\* WiredTigerCheckpointThread::setStableTimestamp: the one-shot flag, the
\* load of _initialDataTimestamp and the notification
SetStableTrigger(c) ==
    LET trig == ShouldTrigger(firstStableCheckpointTaken, cloc[c].prev,
                              initialDataTimestamp, cloc[c].ts)
    IN
    /\ Active(c) /\ cpc[c] = "ssTrigger"
    /\ firstStableCheckpointTaken' = (firstStableCheckpointTaken \/ trig)
    /\ wakes' = (IF trig THEN Min(wakes + 1, 2) ELSE wakes)
    /\ crossed' = (crossed \/ FirstStableCrossing(cloc[c].prev, initialDataTimestamp,
                                                    cloc[c].ts))
    /\ Goto(c, "soEnter")
    /\ UNCHANGED <<cloc, stableTimestamp, initialDataTimestamp, stableReceived,
                   lastStableCheckpointTimestamp, ckptShuttingDown, ckptPc,
                   jfShuttingDown, jfPc, oldestTimestamp, crashed>>
    /\ CallerUnchanged

\* WiredTigerKVEngine::setOldestTimestamp called directly
SetOldestTimestamp(c, ts, force) ==
    /\ Active(c) /\ cpc[c] = "idle"
    /\ Enter(c, "setOldest", "soEnter", ts, force)
    /\ UNCHANGED <<stableTimestamp, initialDataTimestamp, firstStableCheckpointTaken,
                   lastStableCheckpointTimestamp, ckptShuttingDown, ckptPc,
                   jfShuttingDown, jfPc, oldestTimestamp, crashed, wakes, crossed, stableReceived>>
    /\ CallerUnchanged

\* setOldestTimestamp: the fail point, the null test, the two clamps and
\* _conn->set_timestamp("oldest_timestamp=...").  failPoint is
\* WTPreserveSnapshotHistoryIndefinitely, oplogRead is
\* _oplogManager->getOplogReadTimestamp(), localSnap is getLocalSnapshot().
SetOldestPush(c, failPoint, oplogRead, localSnap) ==
    LET val == ClampOldest(cloc[c].ts, cloc[c].force, oplogRead, localSnap) IN
    /\ Active(c) /\ cpc[c] = "soEnter"
    /\ IF failPoint \/ cloc[c].ts = 0
         THEN /\ Goto(c, "ret")
              /\ cloc' = [cloc EXCEPT ![c].prev = 0]
         ELSE /\ Goto(c, "soUpdate")
              /\ cloc' = [cloc EXCEPT
                    ![c].val = val, ![c].prev = 0,
                    ![c].pushes = Append(cloc[c].pushes,
                                         OldestConfig(val, cloc[c].force))]
    /\ UNCHANGED <<stableTimestamp, initialDataTimestamp, firstStableCheckpointTaken,
                   lastStableCheckpointTimestamp, ckptShuttingDown, ckptPc,
                   jfShuttingDown, jfPc, oldestTimestamp, crashed, wakes, crossed, stableReceived>>
    /\ CallerUnchanged

\* setOldestTimestamp: if (force) store; else if (_oldestTimestamp.load() < ts)
SetOldestUpdate(c) ==
    /\ Active(c) /\ cpc[c] = "soUpdate"
    /\ IF cloc[c].force
         THEN /\ oldestTimestamp' = cloc[c].val
              /\ Goto(c, "ret")
         ELSE /\ UNCHANGED oldestTimestamp
              /\ Goto(c, IF ShouldStoreOldest(oldestTimestamp, cloc[c].val)
                           THEN "soStore" ELSE "ret")
    /\ UNCHANGED <<cloc, stableTimestamp, initialDataTimestamp, firstStableCheckpointTaken,
                   lastStableCheckpointTimestamp, ckptShuttingDown, ckptPc,
                   jfShuttingDown, jfPc, crashed, wakes, crossed, stableReceived>>
    /\ CallerUnchanged

\* setOldestTimestamp: _oldestTimestamp.store of the non-forced path
SetOldestStore(c) ==
    /\ Active(c) /\ cpc[c] = "soStore"
    /\ oldestTimestamp' = cloc[c].val
    /\ Goto(c, "ret")
    /\ UNCHANGED <<cloc, stableTimestamp, initialDataTimestamp, firstStableCheckpointTaken,
                   lastStableCheckpointTimestamp, ckptShuttingDown, ckptPc,
                   jfShuttingDown, jfPc, crashed, wakes, crossed, stableReceived>>
    /\ CallerUnchanged

\* ------------------------------------------------------------------------
\* WiredTigerKVEngine::recoverToStableTimestamp
\* ------------------------------------------------------------------------

\* supportsRecoverToStableTimestamp (the modelled engine is not ephemeral)
SupportsRecoverToStableTimestamp == keepDataHistory

RtsUnchanged ==
    UNCHANGED <<enableMajorityReadConcern, hasKeyDB, durable, nCallers, dropVars, opVars, engVars,
                oldestTimestamp>>

\* if (!supportsRecoverToStableTimestamp()) fassertFailed(50665)
RecoverToStableTimestamp(c) ==
    /\ Active(c) /\ cpc[c] = "idle"
    /\ IF SupportsRecoverToStableTimestamp
         THEN /\ Enter(c, "recoverToStable", "rtsLoadInit", 0, FALSE)
              /\ UNCHANGED crashed
         ELSE /\ crashed' = TRUE
              /\ Enter(c, "recoverToStable", "aborted", 0, FALSE)
    /\ UNCHANGED <<stableTimestamp, initialDataTimestamp, firstStableCheckpointTaken,
                   lastStableCheckpointTimestamp, ckptShuttingDown, ckptPc, ckptLoc,
                   jfShuttingDown, jfPc, wakes, crossed, stableReceived>>
    /\ RtsUnchanged

\* canRecoverToStableTimestamp: _initialDataTimestamp.load() and
\* invariant(initialDataTimestamp > allowUnstableCheckpointsSentinel)
RtsLoadInitialData(c) ==
    /\ Active(c) /\ cpc[c] = "rtsLoadInit"
    /\ cloc' = [cloc EXCEPT ![c].initData = initialDataTimestamp]
    /\ IF initialDataTimestamp > kAllowUnstableCheckpointsSentinel
         THEN Goto(c, "rtsLoadStable") /\ UNCHANGED crashed
         ELSE Goto(c, "aborted") /\ crashed' = TRUE
    /\ UNCHANGED <<stableTimestamp, initialDataTimestamp, firstStableCheckpointTaken,
                   lastStableCheckpointTimestamp, ckptShuttingDown, ckptPc, ckptLoc,
                   jfShuttingDown, jfPc, wakes, crossed, stableReceived>>
    /\ RtsUnchanged

\* canRecoverToStableTimestamp: return _stableTimestamp.load() >= initialData;
\* when false the call returns UnrecoverableRollbackError
RtsLoadStable(c) ==
    /\ Active(c) /\ cpc[c] = "rtsLoadStable"
    /\ IF CanRecover(stableTimestamp, cloc[c].initData)
         THEN /\ Goto(c, "rtsJf")
              /\ cloc' = [cloc EXCEPT ![c].stable = stableTimestamp]
         ELSE /\ Goto(c, "ret")
              /\ cloc' = [cloc EXCEPT ![c].stable = stableTimestamp,
                                      ![c].ret = "UnrecoverableRollbackError"]
    /\ UNCHANGED <<stableTimestamp, initialDataTimestamp, firstStableCheckpointTaken,
                   lastStableCheckpointTimestamp, ckptShuttingDown, ckptPc, ckptLoc,
                   jfShuttingDown, jfPc, crashed, wakes, crossed, stableReceived>>
    /\ RtsUnchanged

\* Outcomes of _journalFlusher->shutdown() through a null pointer (the
\* flusher is only created for a durable engine): the access faults, or the
\* build lets the call pass without effect.
NullCallOutcomes == {"fault", "pass"}

\* _journalFlusher->shutdown(): _shuttingDown.store(true)
RtsShutdownJournalFlusher(c, ub) ==
    /\ Active(c) /\ cpc[c] = "rtsJf"
    /\ IF jfPc = "null"
         THEN /\ UNCHANGED <<jfShuttingDown, cloc>>
              /\ crashed' = (ub = "fault")
              /\ Goto(c, IF ub = "fault" THEN "aborted" ELSE "rtsCk")
         ELSE /\ ub = "pass"
              /\ jfShuttingDown' = TRUE
              /\ cloc' = [cloc EXCEPT ![c].jfDown = TRUE]
              /\ UNCHANGED crashed
              /\ Goto(c, "rtsJfJoin")
    /\ UNCHANGED <<stableTimestamp, initialDataTimestamp, firstStableCheckpointTaken,
                   lastStableCheckpointTimestamp, ckptShuttingDown, ckptPc, ckptLoc,
                   jfPc, wakes, crossed, stableReceived>>
    /\ RtsUnchanged

\* _journalFlusher->shutdown(): wait()
RtsJoinJournalFlusher(c) ==
    /\ Active(c) /\ cpc[c] = "rtsJfJoin"
    /\ jfPc = "exited"
    /\ Goto(c, "rtsCk")
    /\ UNCHANGED <<cloc, stableTimestamp, initialDataTimestamp, firstStableCheckpointTaken,
                   lastStableCheckpointTimestamp, ckptShuttingDown, ckptPc, ckptLoc,
                   jfShuttingDown, jfPc, crashed, wakes, crossed, stableReceived>>
    /\ RtsUnchanged

\* _checkpointThread->shutdown(): _shuttingDown.store(true); notify_one()
RtsShutdownCheckpointThread(c) ==
    /\ Active(c) /\ cpc[c] = "rtsCk"
    /\ ckptShuttingDown' = TRUE
    /\ cloc' = [cloc EXCEPT ![c].ckDown = TRUE]
    /\ Goto(c, "rtsCkJoin")
    /\ UNCHANGED <<stableTimestamp, initialDataTimestamp, firstStableCheckpointTaken,
                   lastStableCheckpointTimestamp, ckptPc, ckptLoc,
                   jfShuttingDown, jfPc, crashed, wakes, crossed, stableReceived>>
    /\ RtsUnchanged

\* RtsJoinCheckpointThread that does not wait for the thread
RtsJoinCheckpointThread_M12(c) ==
    /\ Active(c) /\ cpc[c] = "rtsCkJoin"
    /\ cloc' = [cloc EXCEPT ![c].stable = stableTimestamp,
                            ![c].initData = initialDataTimestamp,
                            ![c].stableRcv = stableReceived]
    /\ Goto(c, "rtsRollback")
    /\ UNCHANGED <<stableTimestamp, initialDataTimestamp, firstStableCheckpointTaken,
                   lastStableCheckpointTimestamp, ckptShuttingDown, ckptPc, ckptLoc,
                   jfShuttingDown, jfPc, crashed, wakes, crossed, stableReceived>>
    /\ RtsUnchanged

\* _checkpointThread->shutdown(): wait(); then getStableTimestamp() and
\* getInitialDataTimestamp() of the stopped thread
RtsJoinCheckpointThread(c) ==
    /\ Active(c) /\ cpc[c] = "rtsCkJoin"
    /\ ckptPc = "exited"
    /\ cloc' = [cloc EXCEPT ![c].stable = stableTimestamp,
                            ![c].initData = initialDataTimestamp,
                            ![c].stableRcv = stableReceived]
    /\ Goto(c, "rtsRollback")
    /\ UNCHANGED <<stableTimestamp, initialDataTimestamp, firstStableCheckpointTaken,
                   lastStableCheckpointTimestamp, ckptShuttingDown, ckptPc, ckptLoc,
                   jfShuttingDown, jfPc, crashed, wakes, crossed, stableReceived>>
    /\ RtsUnchanged

\* _conn->rollback_to_stable(); a non-zero return gives
\* UnrecoverableRollbackError
RtsRollback(c, ok) ==
    /\ Active(c) /\ cpc[c] = "rtsRollback"
    /\ cloc' = [cloc EXCEPT ![c].rolledBack = TRUE,
                            ![c].ret = IF ok THEN "none"
                                       ELSE "UnrecoverableRollbackError"]
    /\ Goto(c, IF ok THEN "rtsRestart" ELSE "ret")
    /\ UNCHANGED <<stableTimestamp, initialDataTimestamp, firstStableCheckpointTaken,
                   lastStableCheckpointTimestamp, ckptShuttingDown, ckptPc, ckptLoc,
                   jfShuttingDown, jfPc, crashed, wakes, crossed, stableReceived>>
    /\ RtsUnchanged

\* new WiredTigerJournalFlusher, go(); new WiredTigerCheckpointThread,
\* setInitialDataTimestamp, setStableTimestamp, go(); return {stableTimestamp}
RtsRestart(c) ==
    LET trig == ShouldTrigger(FALSE, 0, cloc[c].initData, cloc[c].stable) IN
    /\ Active(c) /\ cpc[c] = "rtsRestart"
    /\ jfShuttingDown' = FALSE
    /\ jfPc' = "top"
    /\ initialDataTimestamp' = cloc[c].initData
    /\ stableTimestamp' = cloc[c].stable
    /\ firstStableCheckpointTaken' = trig
    /\ wakes' = (IF trig THEN 1 ELSE 0)
    /\ crossed' = FirstStableCrossing(0, cloc[c].initData, cloc[c].stable)
    /\ stableReceived' = cloc[c].stableRcv
    /\ lastStableCheckpointTimestamp' = 0
    /\ ckptShuttingDown' = FALSE
    /\ ckptPc' = "top"
    /\ ckptLoc' = IdleCkptLoc
    /\ cloc' = [cloc EXCEPT ![c].ret = "OK", ![c].val = cloc[c].stable]
    /\ Goto(c, "ret")
    /\ UNCHANGED crashed
    /\ RtsUnchanged

\* ------------------------------------------------------------------------
\* Ident manager: dropIdent, dropSomeQueuedIdents, hasIdent
\* ------------------------------------------------------------------------

\* WiredTigerKVEngine::_uri: "table:" + ident
Uri(ident) == <<"table:", ident>>

\* the ident a table URI names
IdentOf(uri) == uri[2]

\* WiredTigerKVEngine::hasIdent / _hasUri: search of metadata:create
HasIdent(ident) == tables[ident] # "absent"

IdleDropLoc == [ident |-> 0, ret |-> 0]
IdleReaperLoc == [numToDelete |-> 0, i |-> 0, uri |-> <<>>, seq |-> 0]

\* Results WT_SESSION::drop(uri, "force,checkpoint_wait=false") can give for
\* a table in the given state.  A missing table gives 0 or ENOENT; EINVAL
\* stands for every result the engine does not expect.
DropResults(state) ==
    IF state = "busy" THEN {EBUSY, EINVAL}
    ELSE IF state = "idle" THEN {0, EINVAL}
    ELSE {0, ENOENT, EINVAL}

\* DropIdentOutcome without the ENOENT branch
DropIdentOutcome_M7(ret) ==
    IF ret = 0 THEN "ok"
    ELSE IF ret = EBUSY THEN "enqueue"
    ELSE "fatal"

\* dropIdent: what the call does with the result of the drop
DropIdentOutcome(ret) ==
    IF ret = 0 THEN "ok"
    ELSE IF ret = EBUSY THEN "enqueue"
    ELSE IF ret = ENOENT THEN "ok"
    ELSE "fatal"

\* ReaperOutcome that forgets a busy table
ReaperOutcome_M8(ret) ==
    IF ret = EBUSY THEN "ok"
    ELSE IF ret = 0 THEN "ok"
    ELSE "fatal"

\* dropSomeQueuedIdents: what the reaper does with the result of the drop
ReaperOutcome(ret) ==
    IF ret = EBUSY THEN "requeue"
    ELSE IF ret = 0 THEN "ok"
    ELSE "fatal"

\* EnqueueDrop at the back of the queue
EnqueueDrop_M6(queue, entry) == Append(queue, entry)

\* dropIdent: _identToDrop.push_front(uri)
EnqueueDrop(queue, entry) == <<entry>> \o queue

\* RequeueDrop that loses the entry
RequeueDrop_M5(queue, entry) == queue

\* RequeueDrop that keeps only the entry it pushes
RequeueDrop_M38(queue, entry) == <<entry>>

\* dropSomeQueuedIdents: _identToDrop.push_back(uri)
RequeueDrop(queue, entry) == Append(queue, entry)

\* NumToDelete that allows one attempt more
NumToDelete_M28(numInQueue) ==
    LET tenPercentQueue == numInQueue \div 10 IN
    IF tenPercentQueue > kNumToDelete THEN tenPercentQueue ELSE kNumToDelete + 1

\* dropSomeQueuedIdents: numToDelete from the queue length
NumToDelete(numInQueue) ==
    LET tenPercentQueue == numInQueue \div 10 IN
    IF tenPercentQueue > kNumToDelete THEN tenPercentQueue ELSE kNumToDelete

InQueue(uri) == \E k \in 1..Len(identToDrop) : identToDrop[k].uri = uri

PendingEnqueues == Cardinality({c \in Callers : dpc[c] = "enqueue"})

\* Entries carry the rank of their insertion by dropIdent among the entries
\* that are still pending; when an entry is gone the later ones move up.
Renumber(queue, gone) ==
    [k \in 1..Len(queue) |->
        IF queue[k].seq > gone THEN [queue[k] EXCEPT !.seq = queue[k].seq - 1]
        ELSE queue[k]]

InitDrop ==
    /\ tables \in [Idents -> {"absent", "idle", "busy"}]
    /\ identToDrop = <<>>
    /\ dpc = [c \in Callers |-> "idle"]
    /\ dloc = [c \in Callers |-> IdleDropLoc]
    /\ rpPc = "idle"
    /\ rpLoc = IdleReaperLoc
    /\ nextSeq = 1
    /\ dropReturnedOK = [i \in Idents |-> FALSE]

\* the drop state of a run of the timestamp coordinator
InitDropIdle ==
    /\ tables = [i \in Idents |-> "absent"]
    /\ identToDrop = <<>>
    /\ dpc = [c \in Callers |-> "idle"]
    /\ dloc = [c \in Callers |-> IdleDropLoc]
    /\ rpPc = "idle"
    /\ rpLoc = IdleReaperLoc
    /\ nextSeq = 1
    /\ dropReturnedOK = [i \in Idents |-> FALSE]

\* createRecordStore / createSortedDataInterface: WT_SESSION::create
CreateTable(ident) ==
    /\ ~crashed /\ tables[ident] = "absent"
    /\ tables' = [tables EXCEPT ![ident] = "idle"]
    /\ UNCHANGED <<identToDrop, dpc, dloc, rpPc, rpLoc, nextSeq, dropReturnedOK, tsVars, engVars, opVars>>

\* another session opens a cursor on the table, a later drop reports EBUSY
OpenCursor(ident) ==
    /\ ~crashed /\ tables[ident] = "idle"
    /\ tables' = [tables EXCEPT ![ident] = "busy"]
    /\ UNCHANGED <<identToDrop, dpc, dloc, rpPc, rpLoc, nextSeq, dropReturnedOK, tsVars, engVars, opVars>>

\* the cursors on the table are closed
CloseCursors(ident) ==
    /\ ~crashed /\ tables[ident] = "busy"
    /\ tables' = [tables EXCEPT ![ident] = "idle"]
    /\ UNCHANGED <<identToDrop, dpc, dloc, rpPc, rpLoc, nextSeq, dropReturnedOK, tsVars, engVars, opVars>>

\* The history of a table ends when a drop of the table succeeds
TableDropped(ident, ret) ==
    IF ret = 0 THEN [dropReturnedOK EXCEPT ![ident] = FALSE] ELSE dropReturnedOK

\* dropIdent: session->drop(uri, "force,checkpoint_wait=false") and the
\* branch on its result.  On 0 and on ENOENT the call returns Status::OK()
\* in the same step, it touches no shared state after the drop.
DropIdent(c, ident, ret) ==
    LET out == DropIdentOutcome(ret) IN
    /\ ~crashed /\ c <= nCallers /\ dpc[c] = "idle"
    /\ ret \in DropResults(tables[ident])
    /\ ret = EBUSY => nextSeq + PendingEnqueues <= MaxQueue
    /\ tables' = (IF ret = 0 THEN [tables EXCEPT ![ident] = "absent"] ELSE tables)
    /\ dropReturnedOK' = TableDropped(ident, ret)
    /\ dpc' = [dpc EXCEPT ![c] = CASE out = "ok" -> "idle"
                                   [] out = "enqueue" -> "enqueue"
                                   [] OTHER -> "aborted"]
    /\ dloc' = [dloc EXCEPT ![c] =
                  IF out = "ok" THEN IdleDropLoc
                  ELSE [IdleDropLoc EXCEPT !.ident = ident, !.ret = ret]]
    /\ crashed' = (out = "fatal")
    /\ UNCHANGED <<identToDrop, rpPc, rpLoc, nextSeq>>
    /\ UNCHANGED <<enableMajorityReadConcern, hasKeyDB, durable, nCallers,
                   stableTimestamp, initialDataTimestamp, firstStableCheckpointTaken,
                   lastStableCheckpointTimestamp, ckptShuttingDown, ckptPc, ckptLoc,
                   jfShuttingDown, jfPc, oldestTimestamp, cpc, cloc, wakes, crossed, stableReceived,
                   engVars, opVars>>

\* dropIdent on EBUSY: lock _identToDropMutex, push the uri,
\* closeCursorsForQueuedDrops, return Status::OK()
DropIdentEnqueue(c) ==
    /\ ~crashed /\ c <= nCallers /\ dpc[c] = "enqueue"
    /\ identToDropMutex = "free"
    /\ identToDrop' = EnqueueDrop(identToDrop,
                                  [uri |-> Uri(dloc[c].ident), seq |-> nextSeq,
                                   tried |-> FALSE])
    /\ nextSeq' = nextSeq + 1
    /\ dropReturnedOK' = [dropReturnedOK EXCEPT ![dloc[c].ident] =
                            HasIdent(dloc[c].ident)]
    /\ dpc' = [dpc EXCEPT ![c] = "idle"]
    /\ dloc' = [dloc EXCEPT ![c] = IdleDropLoc]
    /\ UNCHANGED <<tables, rpPc, rpLoc, tsVars, engVars, opVars>>

\* dropSomeQueuedIdents: numInQueue under the mutex, numToDelete
ReaperStart ==
    /\ ~crashed /\ rpPc = "idle"
    /\ identToDropMutex = "free"
    /\ rpPc' = "loop"
    /\ rpLoc' = [IdleReaperLoc EXCEPT !.numToDelete = NumToDelete(Len(identToDrop))]
    /\ UNCHANGED <<tables, identToDrop, dpc, dloc, nextSeq, dropReturnedOK, tsVars, engVars, opVars>>

\* dropSomeQueuedIdents: the loop test; under the mutex the empty test,
\* front() and pop_front(); then session->drop(uri, ...) and the branch on
\* its result.  The pop and the drop are one step: the pop touches only the
\* queue and the drop only the table, so a step of another thread between
\* the two has the same effect when it comes before the pop (a step on the
\* tables) or after the drop (a push on the queue).
ReaperTake(ret) ==
    /\ ~crashed /\ rpPc = "loop"
    /\ rpLoc.i < rpLoc.numToDelete => identToDropMutex = "free"
    /\ IF rpLoc.i < rpLoc.numToDelete /\ identToDrop # <<>>
         THEN LET e == Head(identToDrop)
                  ident == IdentOf(e.uri)
                  out == ReaperOutcome(ret)
              IN
              /\ ret \in DropResults(tables[ident])
              /\ tables' = (IF ret = 0 THEN [tables EXCEPT ![ident] = "absent"]
                                       ELSE tables)
              /\ dropReturnedOK' = TableDropped(ident, ret)
              /\ rpPc' = CASE out = "requeue" -> "requeue"
                           [] out = "ok" -> "loop"
                           [] OTHER -> "aborted"
              /\ rpLoc' = CASE out = "ok" -> [rpLoc EXCEPT !.i = rpLoc.i + 1]
                            [] OTHER -> [rpLoc EXCEPT !.uri = e.uri, !.seq = e.seq]
              /\ crashed' = (out = "fatal")
              /\ IF out = "ok"
                   THEN /\ identToDrop' = Renumber(Tail(identToDrop), e.seq)
                        /\ nextSeq' = nextSeq - 1
                   ELSE /\ identToDrop' = Tail(identToDrop)
                        /\ UNCHANGED nextSeq
         ELSE /\ ret = 0
              /\ rpPc' = "idle"
              /\ rpLoc' = IdleReaperLoc
              /\ UNCHANGED <<tables, identToDrop, nextSeq, dropReturnedOK, crashed>>
    /\ UNCHANGED <<dpc, dloc>>
    /\ UNCHANGED <<enableMajorityReadConcern, hasKeyDB, durable, nCallers,
                   stableTimestamp, initialDataTimestamp, firstStableCheckpointTaken,
                   lastStableCheckpointTimestamp, ckptShuttingDown, ckptPc, ckptLoc,
                   jfShuttingDown, jfPc, oldestTimestamp, cpc, cloc, wakes, crossed, stableReceived,
                   engVars, opVars>>

\* dropSomeQueuedIdents: on EBUSY lock the mutex and push the uri again
ReaperRequeue ==
    /\ ~crashed /\ rpPc = "requeue"
    /\ identToDropMutex = "free"
    /\ identToDrop' = RequeueDrop(identToDrop,
                                  [uri |-> rpLoc.uri, seq |-> rpLoc.seq, tried |-> TRUE])
    /\ rpPc' = "loop"
    /\ rpLoc' = [rpLoc EXCEPT !.i = rpLoc.i + 1, !.uri = <<>>, !.seq = 0]
    /\ UNCHANGED <<tables, dpc, dloc, nextSeq, dropReturnedOK, tsVars, engVars, opVars>>

\* ------------------------------------------------------------------------
\* Operations of the running engine: idle state
\* ------------------------------------------------------------------------
IdleHdqLoc == [now |-> 0, delta |-> 0, ret |-> "none"]

IdleBackup ==
    [pc |-> "idle", mode |-> "none", global |-> FALSE, dbList |-> <<>>, db |-> 0,
     filesList |-> <<>>, next |-> 0, calls |-> <<>>, ret |-> "none"]

IdleRepair ==
    [pc |-> "idle", ident |-> 0, rc |-> 0, calls |-> <<>>, ret |-> "none"]

IdleMigration ==
    [pc |-> "idle", initial |-> {}, legacy |-> {}, dirs |-> {}, keydb |-> {},
     copiedFiles |-> {}, emptyDirs |-> {}, attempts |-> {}, error |-> "none"]

\* no operation of the running engine is in progress
\* no reference to the oplog manager, the manager not running
IdleOplog ==
    [count |-> 0, mutex |-> 0, pc |-> [c \in Callers |-> "idle"],
     running |-> FALSE, calls |-> <<>>]

InitOpIdle ==
    /\ clock = 0
    /\ previousCheckedDropsQueued = 0
    /\ identToDropMutex = "free"
    /\ hpc = [c \in Callers |-> "idle"]
    /\ hloc = [c \in Callers |-> IdleHdqLoc]
    /\ fcPc = "idle"
    /\ lastGatePass = None
    /\ bk = IdleBackup
    /\ sv = IdleRepair
    /\ mig = IdleMigration
    /\ om = IdleOplog

\* ------------------------------------------------------------------------
\* Ident manager: haveDropsQueued and filterCursorsWithQueuedDrops
\* ------------------------------------------------------------------------
\* largest time the clock source reaches
MaxClock == 2000

\* haveDropsQueued: Milliseconds(1000)
kDropsQueuedCheckMillis == 1000

HdqUnchanged ==
    UNCHANGED <<tsVars, dropVars, engVars, bk, sv, mig, om>>

\* the clock source moves on
Tick ==
    /\ ~crashed /\ clock + 500 <= MaxClock
    /\ clock' = clock + 500
    /\ UNCHANGED <<previousCheckedDropsQueued, identToDropMutex, hpc, hloc, fcPc,
                   lastGatePass>>
    /\ HdqUnchanged

\* haveDropsQueued: if (delta < Milliseconds(1000)) return false
HdqRateGate(delta) == delta < kDropsQueuedCheckMillis

\* haveDropsQueued: now = _clockSource->now(), delta = now -
\* _previousCheckedDropsQueued and the rate gate.  The sync of the size
\* storer the call may start here touches nothing of the ident manager.
HaveDropsQueued(c) ==
    LET delta == clock - previousCheckedDropsQueued IN
    /\ ~crashed /\ c <= nCallers /\ hpc[c] = "idle"
    /\ IF HdqRateGate(delta)
         THEN /\ hpc' = [hpc EXCEPT ![c] = "ret"]
              /\ hloc' = [hloc EXCEPT ![c] = [now |-> clock, delta |-> delta,
                                               ret |-> "false"]]
              /\ UNCHANGED lastGatePass
         ELSE /\ hpc' = [hpc EXCEPT ![c] = "store"]
              /\ hloc' = [hloc EXCEPT ![c] = [now |-> clock, delta |-> delta,
                                               ret |-> "none"]]
              /\ lastGatePass' = clock
    /\ UNCHANGED <<clock, previousCheckedDropsQueued, identToDropMutex, fcPc>>
    /\ HdqUnchanged

\* haveDropsQueued: _previousCheckedDropsQueued = now, a plain member the
\* calls of all threads write without a lock
HdqStore(c) ==
    /\ ~crashed /\ hpc[c] = "store"
    /\ previousCheckedDropsQueued' = hloc[c].now
    /\ hpc' = [hpc EXCEPT ![c] = "tryLock"]
    /\ UNCHANGED <<clock, identToDropMutex, hloc, fcPc, lastGatePass>>
    /\ HdqUnchanged

\* haveDropsQueued: return lk.try_lock() && !_identToDrop.empty(); the lock
\* is released when the call returns
HdqTryLock(c) ==
    /\ ~crashed /\ hpc[c] = "tryLock"
    /\ hpc' = [hpc EXCEPT ![c] = "ret"]
    /\ hloc' = [hloc EXCEPT ![c].ret =
                   IF identToDropMutex = "free" /\ identToDrop # <<>>
                     THEN "true" ELSE "false"]
    /\ UNCHANGED <<clock, previousCheckedDropsQueued, identToDropMutex, fcPc,
                   lastGatePass>>
    /\ HdqUnchanged

\* the caller has the result
HdqReturn(c) ==
    /\ ~crashed /\ hpc[c] = "ret"
    /\ hpc' = [hpc EXCEPT ![c] = "idle"]
    /\ hloc' = [hloc EXCEPT ![c] = IdleHdqLoc]
    /\ UNCHANGED <<clock, previousCheckedDropsQueued, identToDropMutex, fcPc,
                   lastGatePass>>
    /\ HdqUnchanged

\* filterCursorsWithQueuedDrops: lock_guard lk(_identToDropMutex)
FilterCursorsLock ==
    /\ ~crashed /\ fcPc = "idle"
    /\ identToDropMutex = "free"
    /\ identToDropMutex' = "filter"
    /\ fcPc' = "scan"
    /\ UNCHANGED <<clock, previousCheckedDropsQueued, hpc, hloc, lastGatePass>>
    /\ HdqUnchanged

\* filterCursorsWithQueuedDrops: the scan of the cursor cache against the
\* queue, then the return, which releases the mutex
FilterCursorsReturn ==
    /\ ~crashed /\ fcPc = "scan"
    /\ identToDropMutex' = "free"
    /\ fcPc' = "idle"
    /\ UNCHANGED <<clock, previousCheckedDropsQueued, hpc, hloc, lastGatePass>>
    /\ HdqUnchanged

\* ------------------------------------------------------------------------
\* Hot backup: _hotBackupPopulateLists and the two hotBackup overloads
\* ------------------------------------------------------------------------
\* largest number of files one backup cursor yields
MaxBackupFiles == 2

HbUnchanged ==
    UNCHANGED <<tsVars, dropVars, engVars, hdqVars, sv, mig, om>>

\* the number of entries of filesList that come from the data base db
FilesOf(filesList, db) ==
    Cardinality({k \in 1..Len(filesList) : filesList[k].db = db})

\* leaving _hotBackupPopulateLists: the unique_ptr<Lock::GlobalRead> gives
\* the lock back, by reset() or by its destructor
Released(b) ==
    [b EXCEPT !.global = FALSE,
              !.calls = IF b.global THEN Append(@, "unlock") ELSE @]

\* a return of hotBackup with a status, or an exception that leaves it
HbLeave(b, status) == [Released(b) EXCEPT !.pc = "done", !.ret = status]

\* hotBackup(path) and hotBackup(s3params) up to the first session of
\* _hotBackupPopulateLists: the early return of a non-durable engine, then
\* the global read lock, taken only with an encryption key DB
HotBackup(mode) ==
    /\ ~crashed /\ bk.pc = "idle"
    /\ bk' = IF ~durable
               THEN [bk EXCEPT !.pc = "done", !.mode = mode, !.ret = "EngineExtension"]
               ELSE [bk EXCEPT !.pc = "openMain", !.mode = mode,
                               !.global = hasKeyDB,
                               !.calls = IF hasKeyDB THEN <<"lock">> ELSE <<>>]
    /\ HbUnchanged

\* HbStorageMetadata without global.reset()
HbStorageMetadata_M21(outcome) ==
    /\ ~crashed /\ bk.pc = "storage"
    /\ bk' = IF outcome = "throw"
               THEN HbLeave(bk, "exception")
               ELSE [bk EXCEPT
                       !.filesList = Append(@, [db |-> "main", dir |-> "storage.bson"]),
                       !.next = 1,
                       !.pc = IF bk.mode = "s3" THEN "s3" ELSE "copy"]
    /\ HbUnchanged

\* the backup cursor of the main instance: log_flush, open_cursor("backup:")
HbOpenMain(outcome) ==
    /\ ~crashed /\ bk.pc = "openMain"
    /\ bk' = IF outcome # "ok"
               THEN HbLeave(bk, "wtRCToStatus")
               ELSE [bk EXCEPT !.dbList = Append(@, "main"),
                               !.calls = Append(@, "open_main"),
                               !.pc = IF hasKeyDB THEN "openKeyDB" ELSE "list",
                               !.db = 1]
    /\ HbUnchanged

\* the backup cursor of the key DB
HbOpenKeyDB(outcome) ==
    /\ ~crashed /\ bk.pc = "openKeyDB"
    /\ bk' = IF outcome # "ok"
               THEN HbLeave(bk, "wtRCToStatus")
               ELSE [bk EXCEPT !.dbList = Append(@, "keydb"),
                               !.calls = Append(@, "open_keydb"),
                               !.pc = "list"]
    /\ HbUnchanged

\* one pass of the loop over a backup cursor: c->next and get_key, the
\* file found in the directory of the data base or in its journal
\* directory or in neither, the end of the cursor, an error of the cursor,
\* an exception of fs::file_size
HbNext(outcome) ==
    /\ ~crashed /\ bk.pc = "list"
    /\ outcome \in {"file", "journal"} =>
          FilesOf(bk.filesList, bk.dbList[bk.db]) < MaxBackupFiles
    /\ bk' = CASE outcome \in {"file", "journal"} ->
                   [bk EXCEPT !.filesList =
                      Append(@, [db |-> bk.dbList[bk.db],
                                 dir |-> IF outcome = "file" THEN "." ELSE "journal"])]
               [] outcome = "missing" -> HbLeave(bk, "InvalidPath")
               [] outcome = "WT_NOTFOUND" ->
                   IF bk.db < Len(bk.dbList)
                     THEN [bk EXCEPT !.db = @ + 1]
                     ELSE [bk EXCEPT !.pc = "storage"]
               [] outcome = "error" -> HbLeave(bk, "wtRCToStatus")
               [] OTHER -> HbLeave(bk, "exception")
    /\ HbUnchanged

\* storage.bson is added to the list, the global lock is released and
\* _hotBackupPopulateLists returns OK: phase 2 begins
HbStorageMetadata(outcome) ==
    /\ ~crashed /\ bk.pc = "storage"
    /\ bk' = IF outcome = "throw"
               THEN HbLeave(bk, "exception")
               ELSE [Released(bk) EXCEPT
                       !.filesList = Append(@, [db |-> "main", dir |-> "storage.bson"]),
                       !.next = 1,
                       !.pc = IF bk.mode = "s3" THEN "s3" ELSE "copy"]
    /\ HbUnchanged

\* hotBackup(path): one pass of the copy loop, create_directories and
\* copy_file_size; OK after the last file
HbCopyFile(outcome) ==
    /\ ~crashed /\ bk.pc = "copy"
    /\ bk' = CASE outcome = "filesystem_error" ->
                   [HbLeave(bk, "InvalidPath") EXCEPT !.calls = Append(@, "copy")]
               [] outcome = "exception" ->
                   [HbLeave(bk, "InternalError") EXCEPT !.calls = Append(@, "copy")]
               [] OTHER ->
                   IF bk.next < Len(bk.filesList)
                     THEN [bk EXCEPT !.next = @ + 1, !.calls = Append(@, "copy")]
                     ELSE [HbLeave(bk, "OK") EXCEPT !.calls = Append(@, "copy")]
    /\ HbUnchanged

\* hotBackup(s3params): the client, ListBuckets, CreateBucket or ListObjects
\* of the target location
HbS3Prepare(outcome) ==
    /\ ~crashed /\ bk.pc = "s3"
    /\ bk' = IF outcome = "ok" THEN [bk EXCEPT !.pc = "put"]
               ELSE HbLeave(bk, outcome)
    /\ HbUnchanged

\* hotBackup(s3params): one pass of the upload loop, PutObject; OK after the
\* last file
HbPutObject(outcome) ==
    /\ ~crashed /\ bk.pc = "put"
    /\ bk' = CASE outcome = "open" -> HbLeave(bk, "InvalidPath")
               [] outcome = "error" ->
                   [HbLeave(bk, "InternalError") EXCEPT !.calls = Append(@, "put")]
               [] OTHER ->
                   IF bk.next < Len(bk.filesList)
                     THEN [bk EXCEPT !.next = @ + 1, !.calls = Append(@, "put")]
                     ELSE [HbLeave(bk, "OK") EXCEPT !.calls = Append(@, "put")]
    /\ HbUnchanged

\* the caller has the status; the sessions of dbList are closed
HbReturn ==
    /\ ~crashed /\ bk.pc = "done"
    /\ bk' = IdleBackup
    /\ HbUnchanged

\* ------------------------------------------------------------------------
\* Repair: repairIdent, _salvageIfNeeded and _rebuildIdent
\* ------------------------------------------------------------------------
\* results of WT_SESSION::verify: 0, EBUSY, ENOENT and another error
VerifyResults == {0, EBUSY, ENOENT, EINVAL}

\* results of salvage and create: 0 and an error
CallResults == {0, EINVAL}

SvUnchanged ==
    UNCHANGED <<enableMajorityReadConcern, hasKeyDB, durable, nCallers,
                stableTimestamp, initialDataTimestamp, firstStableCheckpointTaken,
                lastStableCheckpointTimestamp, ckptShuttingDown, ckptPc, ckptLoc,
                jfShuttingDown, jfPc, oldestTimestamp, cpc, cloc,
                wakes, crossed, stableReceived,
                identToDrop, dpc, dloc, rpPc, rpLoc, nextSeq, dropReturnedOK,
                engVars, hdqVars, bk, mig, om>>

\* a call of the storage core or of the file system with its result
SvCall(r, name, rc) == [r EXCEPT !.calls = Append(@, <<name, rc>>)]

\* a return of _salvageIfNeeded or _rebuildIdent with a status
SvLeave(r, status) == [r EXCEPT !.pc = "done", !.ret = status]

\* repairIdent: the cursors of the uri are closed; an ephemeral engine
\* returns OK, any other goes on to _salvageIfNeeded
RepairIdent(ident) ==
    /\ ~crashed /\ sv.pc = "idle"
    /\ sv' = IF ephemeral
               THEN [sv EXCEPT !.pc = "done", !.ident = ident, !.ret = "OK"]
               ELSE [sv EXCEPT !.pc = "verify", !.ident = ident]
    /\ UNCHANGED <<crashed, tables>>
    /\ SvUnchanged

\* SvVerify that sends a missing data file to salvage
SvVerify_M22(rc) ==
    /\ ~crashed /\ sv.pc = "verify"
    /\ sv' = LET r == [SvCall(sv, "verify", rc) EXCEPT !.rc = rc] IN
               CASE rc = 0 -> SvLeave(r, "OK")
                 [] rc = EBUSY -> SvLeave(r, "OK")
                 [] OTHER -> [r EXCEPT !.pc = "salvage"]
    /\ UNCHANGED <<crashed, tables>>
    /\ SvUnchanged

\* _salvageIfNeeded: session->verify and the branch on its result
SvVerify(rc) ==
    /\ ~crashed /\ sv.pc = "verify"
    /\ sv' = LET r == [SvCall(sv, "verify", rc) EXCEPT !.rc = rc] IN
               CASE rc = 0 -> SvLeave(r, "OK")
                 [] rc = EBUSY -> SvLeave(r, "OK")
                 [] rc = ENOENT -> [r EXCEPT !.pc = "rebuild"]
                 [] OTHER -> [r EXCEPT !.pc = "salvage"]
    /\ UNCHANGED <<crashed, tables>>
    /\ SvUnchanged

\* _salvageIfNeeded: session->salvage; DataModifiedByRepair when it
\* succeeds, _rebuildIdent when it fails
SvSalvage(rc) ==
    /\ ~crashed /\ sv.pc = "salvage"
    /\ sv' = LET r == SvCall(sv, "salvage", rc) IN
               IF rc = 0 THEN SvLeave(r, "DataModifiedByRepair")
               ELSE [r EXCEPT !.pc = "rebuild"]
    /\ UNCHANGED <<crashed, tables>>
    /\ SvUnchanged

\* _rebuildIdent: invariant(_inRepairMode), then the data file, when there
\* is one, is renamed to <file>.corrupt
SvRebuildRename(hasFile, renamed) ==
    /\ ~crashed /\ sv.pc = "rebuild"
    /\ IF ~inRepairMode
         THEN /\ crashed' = TRUE
              /\ sv' = [sv EXCEPT !.pc = "aborted"]
         ELSE /\ UNCHANGED crashed
              /\ sv' = IF ~hasFile THEN [sv EXCEPT !.pc = "metadata"]
                        ELSE IF renamed
                          THEN [SvCall(sv, "fsyncRename", 0) EXCEPT !.pc = "metadata"]
                          ELSE SvLeave(SvCall(sv, "fsyncRename", EINVAL), "fsyncRename")
    /\ UNCHANGED tables
    /\ SvUnchanged

\* _rebuildIdent: WiredTigerUtil::getMetadataRaw
SvGetMetadata(found) ==
    /\ ~crashed /\ sv.pc = "metadata"
    /\ sv' = IF found THEN [sv EXCEPT !.pc = "drop"]
               ELSE SvLeave(sv, "getMetadataRaw")
    /\ UNCHANGED <<crashed, tables>>
    /\ SvUnchanged

\* _rebuildIdent: session->drop, with a result the state of the table allows
SvDrop(rc) ==
    /\ ~crashed /\ sv.pc = "drop"
    /\ rc \in DropResults(tables[sv.ident])
    /\ sv' = LET r == SvCall(sv, "drop", rc) IN
               IF rc = 0 THEN [r EXCEPT !.pc = "create"]
               ELSE SvLeave(r, "wtRCToStatus")
    /\ tables' = (IF rc = 0 THEN [tables EXCEPT ![sv.ident] = "absent"] ELSE tables)
    /\ UNCHANGED crashed
    /\ SvUnchanged

\* _rebuildIdent: session->create with the metadata read before the drop
SvCreate(rc) ==
    /\ ~crashed /\ sv.pc = "create"
    /\ sv' = LET r == SvCall(sv, "create", rc) IN
               IF rc = 0 THEN SvLeave(r, "DataModifiedByRepair")
               ELSE SvLeave(r, "wtRCToStatus")
    /\ tables' = (IF rc = 0 THEN [tables EXCEPT ![sv.ident] = "idle"] ELSE tables)
    /\ UNCHANGED crashed
    /\ SvUnchanged

\* the caller of repairIdent has the status
SvReturn ==
    /\ ~crashed /\ sv.pc = "done"
    /\ sv' = IdleRepair
    /\ UNCHANGED <<crashed, tables>>
    /\ SvUnchanged

\* ------------------------------------------------------------------------
\* Engine facade: the session sweeper
\* ------------------------------------------------------------------------
SwUnchanged ==
    UNCHANGED <<tsVars, dropVars, opVars, paramVars, fileVersion, recoveryTimestamp, conn, fs,
                swShuttingDown, epc, eloc, starts, events>>

\* SwLoopTest that does not look at the flag
SwLoopTest_M32 ==
    /\ ~crashed /\ swPc = "top"
    /\ swPc' = "sweep"
    /\ SwUnchanged

\* WiredTigerSessionSweeper::run: while (!_shuttingDown.load())
SwLoopTest ==
    /\ ~crashed /\ swPc = "top"
    /\ swPc' = (IF swShuttingDown THEN "exited" ELSE "sweep")
    /\ SwUnchanged

\* _condvar.wait_for returns; closeExpiredIdleSessions
SwSweep ==
    /\ ~crashed /\ swPc = "sweep"
    /\ swPc' = "top"
    /\ SwUnchanged

\* ------------------------------------------------------------------------
\* Engine facade: WiredTigerFileVersion
\* ------------------------------------------------------------------------
StartupVersions == {"IS_34", "IS_36", "IS_40"}

\* ShouldDowngrade with the read-only test after the arbiter test
ShouldDowngrade_M13(ro, arbiter, fcvInitialized, fcvDowngraded, replSets, hasRecTs, startup) ==
    IF arbiter THEN TRUE
    ELSE IF ro THEN FALSE
    ELSE IF ~fcvInitialized THEN startup = "IS_36" \/ startup = "IS_34"
    ELSE IF ~fcvDowngraded THEN FALSE
    ELSE IF replSets THEN TRUE
    ELSE IF hasRecTs THEN FALSE
    ELSE TRUE

\* WiredTigerFileVersion::shouldDowngrade; fcvDowngraded stands for
\* featureCompatibility.getVersion() == kFullyDowngradedTo36
ShouldDowngrade(ro, arbiter, fcvInitialized, fcvDowngraded, replSets, hasRecTs, startup) ==
    IF ro THEN FALSE
    ELSE IF arbiter THEN TRUE
    ELSE IF ~fcvInitialized THEN startup = "IS_36" \/ startup = "IS_34"
    ELSE IF ~fcvDowngraded THEN FALSE
    ELSE IF replSets THEN TRUE
    ELSE IF hasRecTs THEN FALSE
    ELSE TRUE

\* WiredTigerFileVersion::getDowngradeString; "invariant" is the failed
\* invariant(_startupVersion != StartupVersion::IS_40)
GetDowngradeString(fcvInitialized, startup) ==
    IF ~fcvInitialized
      THEN IF startup = "IS_34" THEN "compatibility=(release=2.9)"
           ELSE IF startup = "IS_36" THEN "compatibility=(release=3.0)"
           ELSE "invariant"
      ELSE "compatibility=(release=3.0)"

\* ------------------------------------------------------------------------
\* Engine facade: the metadata of the main instance
\* ------------------------------------------------------------------------
\* largest number of keys the metadata cursor returns
MaxMeta == 2

\* Keys of "metadata:create" as the pieces a ':' separates, in cursor order
MetadataKeys ==
    << <<":", "a">>,
       <<"colgroup", ":", "a">>,
       <<"file", ":", "a.wt">>,
       <<"metadata">>,
       <<"table", ":", "a">>,
       <<"table", ":", "b", ":", "c">> >>

\* key.find(':'), 0 for npos
FindColon(key) ==
    LET at == {k \in 1..Len(key) : key[k] = ":"}
    IN  IF at = {} THEN 0 ELSE CHOOSE k \in at : \A j \in at : k <= j

\* IsTableKey that takes every key with a ':' for a table
IsTableKey_M14(key) == FindColon(key) # 0

\* cleanShutdown: idx != npos and key.substr(0, idx) == "table"
IsTableKey(key) ==
    /\ FindColon(key) # 0
    /\ SubSeq(key, 1, FindColon(key) - 1) = <<"table">>

\* tableCursor->next: the next key of the metadata after position i, 0 at the end
CursorNext(metadata, i) ==
    LET rest == {k \in metadata : k > i}
    IN  IF rest = {} THEN 0 ELSE CHOOSE k \in rest : \A j \in rest : k <= j

\* ------------------------------------------------------------------------
\* Engine facade: locals, history and the state of a running engine
\* ------------------------------------------------------------------------
\* A directory of a key DB: absent, created but without an instance in it,
\* or an instance encrypted under master key `key` that holds the records
\* `recs`
Absent == [exists |-> FALSE, init |-> FALSE, key |-> 0, recs |-> {}]
EmptyDir == [exists |-> TRUE, init |-> FALSE, key |-> 0, recs |-> {}]
KeyDir(key, recs) == [exists |-> TRUE, init |-> TRUE, key |-> key, recs |-> recs]

\* journal: the directory "journal"; keydb, rotation, rotated: "key.db",
\* "key.db.rotation", "key.db.rotated"; beta: the legacy directory "keydb"
IdleFs ==
    [journal |-> FALSE, keydb |-> Absent, rotation |-> Absent, rotated |-> Absent,
     beta |-> Absent]

IdleEngLoc ==
    [arbiter |-> FALSE, fcvInitialized |-> FALSE, fcvDowngraded |-> FALSE,
     usingReplSets |-> FALSE, decided |-> FALSE, downgrade |-> FALSE,
     connNulled |-> FALSE, destructor |-> FALSE,
     metadata |-> {}, cursor |-> 0,
     justCreated |-> FALSE, attempt |-> 1, ret |-> 0, error |-> "none",
     rotationAtStart |-> FALSE, oldPrimary |-> Absent]

Ev(op, arg) == [op |-> op, arg |-> arg]

\* closeConfig of a close of the main instance
UseTimestamp(b) == IF b THEN <<"use_timestamp=true">> ELSE <<"use_timestamp=false">>

\* the engine of a run of the timestamp coordinator or of the ident manager:
\* constructed, not shutting down
InitEngRunning ==
    /\ InitOpIdle
    /\ readOnly = FALSE /\ ephemeral = FALSE /\ inRepairMode = FALSE
    /\ encryptionParams = [enableEncryption |-> hasKeyDB, vaultRotateMasterKey |-> FALSE]
    /\ fileVersion = "IS_40"
    /\ recoveryTimestamp = initialDataTimestamp
    /\ conn = "open"
    /\ fs = IdleFs
    /\ swShuttingDown = FALSE
    /\ swPc = "top"
    /\ epc = "running"
    /\ eloc = IdleEngLoc
    /\ starts = 1
    /\ events = <<>>

\* ------------------------------------------------------------------------
\* Engine facade: the constructor up to _openWiredTiger
\* ------------------------------------------------------------------------
\* largest number of starts of the process
MaxStarts == 2

\* ids of the records of a key DB at the first start
KeyRecords == {1}

\* return values of wiredtiger_open: 0, EINVAL, WT_TRY_SALVAGE, WT_ERROR
WT_TRY_SALVAGE == -31809
WT_ERROR == -31802
OpenResults == {0, EINVAL, WT_TRY_SALVAGE, WT_ERROR}

\* the log settings of the open configuration the constructor builds
OpenConfig ==
    IF readOnly THEN "readonly=true"
    ELSE IF ~durable THEN "log=(enabled=false)"
    ELSE "log=(enabled=true)"

\* the configuration before ",log=(enabled=false)," is appended
JournalingConfig == "log=(enabled=true)"

RequireMin(attempt) ==
    <<"require_min=3.1.0", "require_min=3.0.0", "require_min=2.9.0">>[attempt]

\* VersionOf with the two older versions exchanged
VersionOf_M15(attempt) == <<"IS_40", "IS_34", "IS_36">>[attempt]

\* _openWiredTiger: the _fileVersion the open with the attempt's require_min sets
VersionOf(attempt) == <<"IS_40", "IS_36", "IS_34">>[attempt]

\* SalvageAllowed without the EINVAL test
SalvageAllowed_M16(ret, repair) == repair

\* _openWiredTiger after the third failure: EINVAL is fatal, so is every error
\* outside repair mode
SalvageAllowed(ret, repair) == ret # EINVAL /\ repair

\* NeedsJournalRecovery without the read-only test
NeedsJournalRecovery_M17(ro, dur, journal) == ~dur /\ journal

\* if (!_durable && !_readOnly) if (exists(journalPath))
NeedsJournalRecovery(ro, dur, journal) == ~dur /\ ~ro /\ journal

\* EncryptionKeyDB::clone: every record of the primary instance
CloneRecords(primary) == primary.recs

CtorPcs ==
    {"ctor", "keydbDir", "keydbInit", "rotCreate", "rotInit", "rotClone", "rotStore",
     "rotRemoveBackup", "rotRenamePrimary", "rotRenameRotation", "config",
     "njOpen", "njClose", "njRemove", "open", "salvage", "startWorkers"}

CtorUnchanged ==
    UNCHANGED <<enableMajorityReadConcern, durable, nCallers,
                stableTimestamp, initialDataTimestamp, firstStableCheckpointTaken,
                lastStableCheckpointTimestamp, ckptShuttingDown, ckptPc, ckptLoc,
                jfShuttingDown, jfPc, oldestTimestamp, cpc, cloc, wakes, crossed, stableReceived,
                dropVars, opVars, paramVars, recoveryTimestamp, swShuttingDown, swPc, starts>>

\* one step of the constructor: "aborted" is a failed fassert or invariant,
\* "threw" an exception that leaves the constructor
CtorStep(pc, newFs, newConn, newLoc, calls) ==
    /\ epc' = pc
    /\ fs' = newFs
    /\ conn' = newConn
    /\ eloc' = newLoc
    /\ events' = events \o calls
    /\ crashed' = (pc = "aborted")
    /\ CtorUnchanged

Throw(error) ==
    CtorStep("threw", fs, conn, [eloc EXCEPT !.error = error], <<>>)

\* if (_durable) if (!exists(journalPath)) create_directory(journalPath)
CtorJournalDir(ok) ==
    /\ ~crashed /\ epc = "ctor"
    /\ IF durable /\ ~fs.journal
         THEN IF ok
                THEN CtorStep("keydbDir", [fs EXCEPT !.journal = TRUE], conn, eloc,
                              <<Ev("create_directory", <<"journal">>)>>)
                ELSE Throw("exception")
         ELSE ok /\ CtorStep("keydbDir", fs, conn, eloc, <<>>)
    /\ UNCHANGED <<hasKeyDB, fileVersion>>

\* if (enableEncryption) if (!exists(keyDBPath)): create the directory, or
\* move the key DB out of the legacy directory "keydb"
CtorKeyDBDir(ok) ==
    /\ ~crashed /\ epc = "keydbDir"
    /\ IF ~encryptionParams.enableEncryption
         THEN ok /\ CtorStep("config", fs, conn, eloc, <<>>)
         ELSE IF fs.keydb.exists
         THEN ok /\ CtorStep("keydbInit", fs, conn, eloc, <<>>)
         ELSE IF ~ok
         THEN Throw("exception")
         ELSE IF ~fs.beta.exists
         THEN CtorStep("keydbInit", [fs EXCEPT !.keydb = EmptyDir], conn,
                       [eloc EXCEPT !.justCreated = TRUE],
                       <<Ev("create_directory", <<"key.db">>)>>)
         ELSE CtorStep("keydbInit", [fs EXCEPT !.keydb = fs.beta, !.beta = Absent], conn,
                       eloc, <<Ev("rename", <<"keydb", "key.db">>)>>)
    /\ UNCHANGED <<hasKeyDB, fileVersion>>

\* EncryptionKeyDB(just_created, keyDBPath)->init(); keyDBPathGuard removes a
\* directory this start created when init throws; without rotation
\* _encryptionKeyDB = std::move(encryptionKeyDB)
CtorKeyDBInit(ok) ==
    LET rotate == encryptionParams.vaultRotateMasterKey IN
    /\ ~crashed /\ epc = "keydbInit"
    /\ IF ok
         THEN /\ CtorStep(IF rotate THEN "rotCreate" ELSE "config",
                          [fs EXCEPT !.keydb = IF fs.keydb.init THEN fs.keydb
                                               ELSE KeyDir(0, {})],
                          conn, eloc, <<>>)
              /\ hasKeyDB' = ~rotate
         ELSE /\ CtorStep("threw",
                          [fs EXCEPT !.keydb = IF eloc.justCreated THEN Absent ELSE fs.keydb],
                          conn, [eloc EXCEPT !.error = "exception"], <<>>)
              /\ UNCHANGED hasKeyDB
    /\ UNCHANGED fileVersion

\* ------------------------------------------------------------------------
\* Engine facade: the constructor with --directoryperdb and a legacy
\* directory "keydb", copy_keydb_files
\* ------------------------------------------------------------------------
\* most directories between the legacy directory and a file in it
MaxDirDepth == 2

\* most files of a legacy directory
MaxLegacyFiles == 2

\* names of directories in the legacy directory
DirNames == {"collection", "db"}

\* names of files: collection-7.wt, 7.wt, index-7.bson
FileNames ==
    {[prefix |-> "collection-", base |-> "7", ext |-> "wt"],
     [prefix |-> "", base |-> "7", ext |-> "wt"],
     [prefix |-> "index-", base |-> "7", ext |-> "bson"]}

\* the directories, as paths below the legacy directory, which is <<>>
DirPaths == UNION {[1..n -> DirNames] : n \in 0..MaxDirDepth}

\* the files, each in a directory
FilePaths == {[dir |-> d, name |-> n] : d \in DirPaths, n \in FileNames}

\* the sets of at most n files
RECURSIVE TreesUpTo(_)
TreesUpTo(n) ==
    IF n = 0 THEN {{}}
    ELSE {{}} \cup {t \cup {f} : t \in TreesUpTo(n - 1), f \in FilePaths}

\* d and the directories above it
Ancestors(d) == {SubSeq(d, 1, n) : n \in 0..Len(d)}

\* the directories a set of files needs
DirsOf(files) == UNION {Ancestors(f.dir) : f \in files}

\* the directory d lies in the directory from
IsChild(d, from) == Len(d) = Len(from) + 1 /\ SubSeq(d, 1, Len(from)) = from

\* the file or directory path lies somewhere below the directory d
Beneath(path, d) == Len(path) >= Len(d) /\ SubSeq(path, 1, Len(d)) = d

\* std::regex_search(path, "/(collection|index)[-/][^/]+\\.wt$") on the full
\* path <dbpath>/keydb/<dir>/<name>
IsUserFile(f) ==
    LET parent == IF f.dir = <<>> THEN "keydb" ELSE f.dir[Len(f.dir)] IN
    /\ f.name.ext = "wt"
    /\ \/ f.name.prefix \in {"collection-", "index-"} /\ f.name.base # ""
       \/ parent \in {"collection", "index"} /\ (f.name.prefix # "" \/ f.name.base # "")

\* copy_keydb_files(from, to, emptyDirs, copiedFiles, parent_empty): the
\* files it copies, the directories it puts on emptyDirs, and whether it
\* clears *parent_empty, which it does for a user file of from itself
RECURSIVE CopyKeydbFiles(_, _, _)
CopyKeydbFiles(from, files, dirs) ==
    LET children == {d \in dirs : IsChild(d, from)}
        own == {f \in files : f.dir = from}
        user == {f \in own : IsUserFile(f)}
        sub == [d \in children |-> CopyKeydbFiles(d, files, dirs)]
        empty == user = {} /\ \A d \in children : ~sub[d].clearsParent
    IN [clearsParent |-> user # {},
        copiedFiles |-> (own \ user) \cup UNION {sub[d].copiedFiles : d \in children},
        emptyDirs |-> (IF empty THEN {from} ELSE {})
                        \cup UNION {sub[d].emptyDirs : d \in children}]

MigUnchanged ==
    UNCHANGED <<tsVars, dropVars, hdqVars, bk, sv, om, paramVars, fileVersion,
                recoveryTimestamp, conn, swShuttingDown, swPc, eloc, starts, events>>

\* the constructor with enableEncryption and directoryperdb, without key.db
\* and with the legacy directory: copy_keydb_files on the tree it finds; a
\* failure of create_directories or copy_file is logged and thrown
MigrateCopy(tree, ok) ==
    LET lists == CopyKeydbFiles(<<>>, tree, DirsOf(tree)) IN
    /\ ~crashed /\ epc = "keydbDir" /\ mig.pc = "idle"
    /\ encryptionParams.enableEncryption /\ ~fs.keydb.exists /\ fs.beta.exists
    /\ IF ok
         THEN /\ mig' = [mig EXCEPT !.pc = "remove", !.initial = tree, !.legacy = tree,
                                    !.dirs = DirsOf(tree),
                                    !.keydb = lists.copiedFiles,
                                    !.copiedFiles = lists.copiedFiles,
                                    !.emptyDirs = lists.emptyDirs]
              /\ fs' = [fs EXCEPT !.keydb = fs.beta]
              /\ UNCHANGED epc
         ELSE /\ mig' = [mig EXCEPT !.pc = "failed", !.initial = tree, !.legacy = tree,
                                    !.dirs = DirsOf(tree), !.error = "copy"]
              /\ epc' = "threw"
              /\ UNCHANGED fs
    /\ MigUnchanged

\* for (file : copiedFiles) fs::remove(file)
MigrateRemoveFile(f) ==
    /\ ~crashed /\ mig.pc = "remove"
    /\ f \in mig.copiedFiles
    /\ mig' = [mig EXCEPT !.copiedFiles = @ \ {f}, !.legacy = @ \ {f}]
    /\ UNCHANGED <<epc, fs>>
    /\ MigUnchanged

\* for (dir : emptyDirs) fs::remove(dir): a directory is on the list after
\* the directories below it; the remove of a directory that is not empty
\* throws, which is logged and thrown on
MigrateRemoveDir(d) ==
    LET hasEntry == \/ \E f \in mig.legacy : f.dir = d
                    \/ \E c \in mig.dirs : IsChild(c, d) IN
    /\ ~crashed /\ mig.pc = "remove"
    /\ mig.copiedFiles = {}
    /\ d \in mig.emptyDirs
    /\ \A c \in mig.emptyDirs : c # d => ~Beneath(c, d)
    /\ IF hasEntry
         THEN /\ mig' = [mig EXCEPT !.pc = "failed", !.attempts = @ \cup {d},
                                    !.error = "remove"]
              /\ epc' = "threw"
              /\ UNCHANGED fs
         ELSE /\ mig' = [mig EXCEPT !.emptyDirs = @ \ {d}, !.dirs = @ \ {d},
                                    !.attempts = @ \cup {d}]
              /\ fs' = (IF d = <<>> THEN [fs EXCEPT !.beta = Absent] ELSE fs)
              /\ UNCHANGED epc
    /\ MigUnchanged

\* both loops are through: the constructor goes on to the key DB
MigrateDone ==
    /\ ~crashed /\ mig.pc = "remove"
    /\ mig.copiedFiles = {} /\ mig.emptyDirs = {}
    /\ mig' = [mig EXCEPT !.pc = "done"]
    /\ epc' = "keydbInit"
    /\ UNCHANGED fs
    /\ MigUnchanged

\* if (exists(newKeyDBPath)) throw "Cannot do master key rotation";
\* create_directory(newKeyDBPath)
RotCreateDir(ok) ==
    /\ ~crashed /\ epc = "rotCreate"
    /\ IF fs.rotation.exists
         THEN ok /\ Throw("rotationDirExists")
         ELSE IF ok
         THEN CtorStep("rotInit", [fs EXCEPT !.rotation = EmptyDir], conn,
                       [eloc EXCEPT !.oldPrimary = fs.keydb],
                       <<Ev("create_directory", <<"key.db.rotation">>)>>)
         ELSE Throw("exception")
    /\ UNCHANGED <<hasKeyDB, fileVersion>>

\* EncryptionKeyDB(newKeyDBPath, true)->init(): a new instance under a new
\* master key
RotInit(ok) ==
    /\ ~crashed /\ epc = "rotInit"
    /\ IF ok
         THEN CtorStep("rotClone", [fs EXCEPT !.rotation = KeyDir(starts, {})], conn,
                       eloc, <<>>)
         ELSE Throw("exception")
    /\ UNCHANGED <<hasKeyDB, fileVersion>>

\* rotationKeyDB->clone(encryptionKeyDB.get())
RotClone(ok) ==
    /\ ~crashed /\ epc = "rotClone"
    /\ IF ok
         THEN CtorStep("rotStore",
                       [fs EXCEPT !.rotation = KeyDir(fs.rotation.key, CloneRecords(fs.keydb))],
                       conn, eloc, <<>>)
         ELSE Throw("exception")
    /\ UNCHANGED <<hasKeyDB, fileVersion>>

\* rotationKeyDB->store_masterkey(): the new key goes to the Vault
RotStoreMasterKey(ok) ==
    /\ ~crashed /\ epc = "rotStore"
    /\ IF ok
         THEN CtorStep("rotRemoveBackup", fs, conn, eloc,
                       <<Ev("store_masterkey", <<"key.db.rotation">>)>>)
         ELSE Throw("exception")
    /\ UNCHANGED <<hasKeyDB, fileVersion>>

\* both instances are reset; remove_all(backupKeyDBPath)
RotRemoveBackup(ok) ==
    /\ ~crashed /\ epc = "rotRemoveBackup"
    /\ IF ok
         THEN CtorStep("rotRenamePrimary", [fs EXCEPT !.rotated = Absent], conn, eloc,
                       <<Ev("remove_all", <<"key.db.rotated">>)>>)
         ELSE Throw("exception")
    /\ UNCHANGED <<hasKeyDB, fileVersion>>

\* RotRenamePrimary that removes the primary instead of renaming it
RotRenamePrimary_M19(ok) ==
    /\ ~crashed /\ epc = "rotRenamePrimary"
    /\ IF ok
         THEN CtorStep("rotRenameRotation", [fs EXCEPT !.keydb = Absent], conn, eloc,
                       <<Ev("rename", <<"key.db", "key.db.rotated">>)>>)
         ELSE Throw("exception")
    /\ UNCHANGED <<hasKeyDB, fileVersion>>

\* rename(keyDBPath, backupKeyDBPath)
RotRenamePrimary(ok) ==
    /\ ~crashed /\ epc = "rotRenamePrimary"
    /\ IF ok
         THEN CtorStep("rotRenameRotation",
                       [fs EXCEPT !.rotated = fs.keydb, !.keydb = Absent], conn, eloc,
                       <<Ev("rename", <<"key.db", "key.db.rotated">>)>>)
         ELSE Throw("exception")
    /\ UNCHANGED <<hasKeyDB, fileVersion>>

\* rename(newKeyDBPath, keyDBPath);
\* throw std::runtime_error("master key rotation finished successfully")
RotRenameRotation(ok) ==
    /\ ~crashed /\ epc = "rotRenameRotation"
    /\ IF ok
         THEN CtorStep("threw",
                       [fs EXCEPT !.keydb = fs.rotation, !.rotation = Absent], conn,
                       [eloc EXCEPT !.error = "rotationFinished"],
                       <<Ev("rename", <<"key.db.rotation", "key.db">>)>>)
         ELSE Throw("exception")
    /\ UNCHANGED <<hasKeyDB, fileVersion>>

\* the open configuration: if (_readOnly) invariant(!_durable); the test for
\* the transition from journal to nojournal
CtorConfig ==
    /\ ~crashed /\ epc = "config"
    /\ CtorStep(IF readOnly /\ durable THEN "aborted"
                ELSE IF NeedsJournalRecovery(readOnly, durable, fs.journal) THEN "njOpen"
                ELSE "open",
                fs, conn, eloc, <<>>)
    /\ UNCHANGED <<hasKeyDB, fileVersion>>

\* wiredtiger_open with the journaling configuration: EINVAL fails fassert
\* 28717, another error throws msgasserted(28718)
NjOpen(ret) ==
    /\ ~crashed /\ epc = "njOpen"
    /\ CtorStep(IF ret = 0 THEN "njClose" ELSE IF ret = EINVAL THEN "aborted" ELSE "threw",
                fs, IF ret = 0 THEN "open" ELSE conn,
                [eloc EXCEPT !.ret = ret,
                             !.error = IF ret \in {0, EINVAL} THEN "none" ELSE "exception"],
                <<Ev("open", <<JournalingConfig>>)>>)
    /\ UNCHANGED <<hasKeyDB, fileVersion>>

\* invariantWTOK(_conn->close(_conn, NULL))
NjClose(ok) ==
    /\ ~crashed /\ epc = "njClose"
    /\ CtorStep(IF ok THEN "njRemove" ELSE "aborted", fs, IF ok THEN "closed" ELSE conn,
                eloc, <<Ev("close", <<>>)>>)
    /\ UNCHANGED <<hasKeyDB, fileVersion>>

\* remove_all(journalPath), its exception is thrown on
NjRemoveJournal(ok) ==
    /\ ~crashed /\ epc = "njRemove"
    /\ IF ok
         THEN CtorStep("open", [fs EXCEPT !.journal = FALSE], conn, eloc,
                       <<Ev("remove_all", <<"journal">>)>>)
         ELSE CtorStep("threw", fs, conn, [eloc EXCEPT !.error = "exception"],
                       <<Ev("remove_all", <<"journal">>)>>)
    /\ UNCHANGED <<hasKeyDB, fileVersion>>

\* _openWiredTiger: wiredtiger_open with require_min 3.1.0, 3.0.0, 2.9.0 in
\* turn; the first that returns 0 sets _fileVersion.  After the third failure
\* EINVAL fails fassert 28561 and outside repair mode fassert 50944 or 28595
OwtOpen(ret) ==
    LET failed == IF SalvageAllowed(ret, inRepairMode) THEN "salvage" ELSE "aborted" IN
    /\ ~crashed /\ epc = "open"
    /\ CtorStep(IF ret = 0 THEN "startWorkers"
                ELSE IF eloc.attempt < 3 THEN "open" ELSE failed,
                fs, IF ret = 0 THEN "open" ELSE conn,
                [eloc EXCEPT !.ret = ret,
                             !.attempt = IF ret # 0 /\ eloc.attempt < 3 THEN @ + 1 ELSE @],
                <<Ev("open", <<OpenConfig, RequireMin(eloc.attempt)>>)>>)
    /\ fileVersion' = (IF ret = 0 THEN VersionOf(eloc.attempt) ELSE fileVersion)
    /\ UNCHANGED hasKeyDB

\* _openWiredTiger in repair mode: wiredtiger_open with salvage=true, then
\* StorageRepairObserver::onModification; a failure fails fassert 50947.
\* This path assigns no _fileVersion: the member keeps a value the
\* constructor never set, any of the three
OwtSalvage(ret, v) ==
    /\ ~crashed /\ epc = "salvage"
    /\ CtorStep(IF ret = 0 THEN "startWorkers" ELSE "aborted",
                fs, IF ret = 0 THEN "open" ELSE conn,
                [eloc EXCEPT !.ret = ret],
                IF ret = 0
                  THEN <<Ev("open", <<OpenConfig, "salvage=true">>),
                         Ev("onModification", <<"WiredTiger metadata salvaged">>)>>
                  ELSE <<Ev("open", <<OpenConfig, "salvage=true">>)>>)
    /\ fileVersion' = (IF ret = 0 THEN v ELSE fileVersion)
    /\ UNCHANGED hasKeyDB

\* the process is killed while the constructor runs
Crash ==
    /\ ~crashed /\ epc \in CtorPcs \ {"startWorkers"}
    /\ CtorStep("dead", fs, conn, eloc, <<>>)
    /\ UNCHANGED <<hasKeyDB, fileVersion>>

\* the operator starts the process again on the same dbpath
Restart(encryption, rotate) ==
    /\ epc \in {"threw", "aborted", "dead"}
    /\ starts < MaxStarts
    /\ rotate => encryption
    /\ starts' = starts + 1
    /\ encryptionParams' = [enableEncryption |-> encryption, vaultRotateMasterKey |-> rotate]
    /\ epc' = "ctor"
    /\ eloc' = [IdleEngLoc EXCEPT !.rotationAtStart = fs.rotation.exists]
    /\ conn' = "none"
    /\ events' = <<>>
    /\ crashed' = FALSE
    /\ hasKeyDB' = FALSE
    /\ fileVersion' = "unset"
    /\ UNCHANGED <<enableMajorityReadConcern, durable, nCallers,
                   stableTimestamp, initialDataTimestamp, firstStableCheckpointTaken,
                   lastStableCheckpointTimestamp, ckptShuttingDown, ckptPc, ckptLoc,
                   jfShuttingDown, jfPc, oldestTimestamp, cpc, cloc, wakes, crossed, stableReceived,
                   dropVars, opVars, readOnly, ephemeral, inRepairMode, recoveryTimestamp, fs,
                   swShuttingDown, swPc>>

\* ------------------------------------------------------------------------
\* Engine facade: the constructor after _openWiredTiger
\* ------------------------------------------------------------------------
\* SeedsStable without the test of _keepDataHistory
SeedsStable_M18(started, rec, history) == started /\ rec # 0

\* setStableTimestamp(_recoveryTimestamp) of the engine reaches the checkpoint
\* thread only with data history and a timestamp that is not null
SeedsStable(started, rec, history) == started /\ rec # 0 /\ history

\* query_timestamp("get=recovery"), the session cache, then the workers: the
\* sweeper always, the journal flusher if durable and not ephemeral, the
\* checkpoint thread if not read-only and not ephemeral, seeded through
\* setInitialDataTimestamp of the thread and setStableTimestamp of the engine;
\* in repair mode the size storer is salvaged
CtorStartWorkers(rec, fp, sizeStorerOk) ==
    LET started == ~readOnly /\ ~ephemeral
        seedInit == started /\ rec # 0
        seeded == SeedsStable(started, rec, keepDataHistory)
    IN
    /\ ~crashed /\ epc = "startWorkers"
    /\ recoveryTimestamp' = rec
    /\ swPc' = "top"
    /\ jfPc' = (IF durable /\ ~ephemeral THEN "top" ELSE "null")
    /\ ckptPc' = (IF started THEN "top" ELSE "null")
    /\ initialDataTimestamp' = (IF seedInit THEN rec ELSE 0)
    /\ stableTimestamp' = (IF seeded THEN rec ELSE 0)
    /\ firstStableCheckpointTaken' = (seeded /\ ShouldTrigger(FALSE, 0, rec, rec))
    /\ wakes' = (IF seeded /\ ShouldTrigger(FALSE, 0, rec, rec) THEN 1 ELSE 0)
    /\ crossed' = (seeded /\ FirstStableCrossing(0, rec, rec))
    /\ stableReceived' = TRUE
    /\ oldestTimestamp' = (IF seeded /\ ~fp THEN rec ELSE 0)
    /\ crashed' = (~readOnly /\ inRepairMode /\ ~sizeStorerOk)
    /\ epc' = "running"
    /\ UNCHANGED <<enableMajorityReadConcern, hasKeyDB, durable, nCallers,
                   lastStableCheckpointTimestamp, ckptShuttingDown, ckptLoc,
                   jfShuttingDown, cpc, cloc>>
    /\ UNCHANGED <<dropVars, opVars, paramVars, fileVersion, conn, fs, swShuttingDown, eloc,
                   starts, events>>

\* ------------------------------------------------------------------------
\* Engine facade: cleanShutdown
\* ------------------------------------------------------------------------
CsUnchanged ==
    UNCHANGED <<enableMajorityReadConcern, hasKeyDB, durable, nCallers,
                stableTimestamp, initialDataTimestamp, firstStableCheckpointTaken,
                lastStableCheckpointTimestamp, ckptPc, ckptLoc, jfPc, oldestTimestamp,
                cpc, cloc, wakes, crossed, stableReceived,
                dropVars, opVars, paramVars, fileVersion, recoveryTimestamp, fs, swPc, starts>>

\* cleanShutdown: syncSizeInfo; if (!_conn) return
CleanShutdown ==
    /\ ~crashed /\ epc = "running"
    /\ epc' = (IF conn = "none" THEN "done" ELSE "sweeper")
    /\ UNCHANGED <<jfShuttingDown, ckptShuttingDown, crashed, swShuttingDown, conn,
                   eloc, events>>
    /\ CsUnchanged

\* if (_sessionSweeper) _sessionSweeper->shutdown(): store the flag, notify
CsShutdownSweeper ==
    /\ ~crashed /\ epc = "sweeper"
    /\ IF swPc = "null"
         THEN epc' = "flusher" /\ UNCHANGED swShuttingDown
         ELSE epc' = "sweeperWait" /\ swShuttingDown' = TRUE
    /\ UNCHANGED <<jfShuttingDown, ckptShuttingDown, crashed, conn, eloc, events>>
    /\ CsUnchanged

\* CsJoinSweeper that does not wait for the thread
CsJoinSweeper_M11 ==
    /\ ~crashed /\ epc = "sweeperWait"
    /\ epc' = "flusher"
    /\ UNCHANGED <<jfShuttingDown, ckptShuttingDown, crashed, swShuttingDown, conn,
                   eloc, events>>
    /\ CsUnchanged

\* WiredTigerSessionSweeper::shutdown: wait()
CsJoinSweeper ==
    /\ ~crashed /\ epc = "sweeperWait"
    /\ swPc = "exited"
    /\ epc' = "flusher"
    /\ UNCHANGED <<jfShuttingDown, ckptShuttingDown, crashed, swShuttingDown, conn,
                   eloc, events>>
    /\ CsUnchanged

\* if (_journalFlusher) _journalFlusher->shutdown(): store the flag
CsShutdownJournalFlusher ==
    /\ ~crashed /\ epc = "flusher"
    /\ IF jfPc = "null"
         THEN epc' = "checkpointer" /\ UNCHANGED jfShuttingDown
         ELSE epc' = "flusherWait" /\ jfShuttingDown' = TRUE
    /\ UNCHANGED <<ckptShuttingDown, crashed, swShuttingDown, conn, eloc, events>>
    /\ CsUnchanged

\* WiredTigerJournalFlusher::shutdown: wait()
CsJoinJournalFlusher ==
    /\ ~crashed /\ epc = "flusherWait"
    /\ jfPc = "exited"
    /\ epc' = "checkpointer"
    /\ UNCHANGED <<jfShuttingDown, ckptShuttingDown, crashed, swShuttingDown, conn,
                   eloc, events>>
    /\ CsUnchanged

\* if (_checkpointThread) _checkpointThread->shutdown(): store the flag, notify
CsShutdownCheckpointThread ==
    /\ ~crashed /\ epc = "checkpointer"
    /\ IF ckptPc = "null"
         THEN epc' = "decide" /\ UNCHANGED ckptShuttingDown
         ELSE epc' = "checkpointerWait" /\ ckptShuttingDown' = TRUE
    /\ UNCHANGED <<jfShuttingDown, crashed, swShuttingDown, conn, eloc, events>>
    /\ CsUnchanged

\* WiredTigerCheckpointThread::shutdown: wait()
CsJoinCheckpointThread ==
    /\ ~crashed /\ epc = "checkpointerWait"
    /\ ckptPc = "exited"
    /\ epc' = "decide"
    /\ UNCHANGED <<jfShuttingDown, ckptShuttingDown, crashed, swShuttingDown, conn,
                   eloc, events>>
    /\ CsUnchanged

\* _sizeStorer.reset(); _sessionCache->shuttingDown();
\* _fileVersion.shouldDowngrade(_readOnly, _inRepairMode, !_recoveryTimestamp.isNull())
\* on the member state, the feature compatibility version and the replication
\* settings of the moment
CsDecide(arbiter, fcvInitialized, fcvDowngraded, replSets) ==
    /\ ~crashed /\ epc = "decide"
    /\ eloc' = [eloc EXCEPT !.arbiter = arbiter, !.fcvInitialized = fcvInitialized,
                            !.fcvDowngraded = fcvDowngraded, !.usingReplSets = replSets,
                            !.decided = TRUE,
                            !.downgrade =
                                ShouldDowngrade(readOnly, arbiter, fcvInitialized,
                                                fcvDowngraded, replSets,
                                                recoveryTimestamp # 0, fileVersion)]
    /\ epc' = "close"
    /\ UNCHANGED <<jfShuttingDown, ckptShuttingDown, crashed, swShuttingDown, conn, events>>
    /\ CsUnchanged

\* invariantWTOK(_conn->close(_conn, closeConfig)): with use_timestamp of the
\* majority read concern and return, or with use_timestamp=false on the way
\* to a downgrade
CsClose(ok) ==
    /\ ~crashed /\ epc = "close"
    /\ events' = Append(events,
                   Ev("close", UseTimestamp(~eloc.downgrade /\ enableMajorityReadConcern)))
    /\ crashed' = ~ok
    /\ conn' = (IF ok THEN "closed" ELSE conn)
    /\ epc' = (IF ~ok THEN "aborted" ELSE IF eloc.downgrade THEN "reopen" ELSE "done")
    /\ UNCHANGED <<jfShuttingDown, ckptShuttingDown, swShuttingDown, eloc>>
    /\ CsUnchanged

\* _conn = nullptr; invariantWTOK(wiredtiger_open(_path, _wtOpenConfig));
\* open_session; open_cursor("metadata:create")
CsReopen(ok, metadata) ==
    /\ ~crashed /\ epc = "reopen"
    /\ events' = Append(events, Ev("open", <<"_wtOpenConfig">>))
    /\ crashed' = ~ok
    /\ conn' = (IF ok THEN "open" ELSE conn)
    /\ eloc' = [eloc EXCEPT !.metadata = IF ok THEN metadata ELSE {}, !.cursor = 0,
                            !.connNulled = TRUE]
    /\ epc' = (IF ok THEN "cursor" ELSE "aborted")
    /\ UNCHANGED <<jfShuttingDown, ckptShuttingDown, swShuttingDown>>
    /\ CsUnchanged

\* one turn of while (tableCursor->next(tableCursor) == 0): skip a key without
\* ':' or of another type, uassertStatusOK(setTableLogging(session, raw, true))
CsCursorNext(ok) ==
    LET k == CursorNext(eloc.metadata, eloc.cursor) IN
    /\ ~crashed /\ epc = "cursor"
    /\ IF k = 0
         THEN /\ ok
              /\ epc' = "reconfigure"
              /\ UNCHANGED <<eloc, events>>
         ELSE IF IsTableKey(MetadataKeys[k])
         THEN /\ events' = Append(events, Ev("setTableLogging", MetadataKeys[k]))
              /\ eloc' = [eloc EXCEPT !.cursor = k]
              /\ epc' = (IF ok THEN "cursor" ELSE "threw")
         ELSE /\ ok
              /\ eloc' = [eloc EXCEPT !.cursor = k]
              /\ UNCHANGED <<epc, events>>
    /\ UNCHANGED <<jfShuttingDown, ckptShuttingDown, crashed, swShuttingDown, conn>>
    /\ CsUnchanged

\* tableCursor->close; session->close;
\* invariantWTOK(conn->reconfigure(conn, _fileVersion.getDowngradeString()))
CsReconfigure(ok) ==
    LET str == GetDowngradeString(eloc.fcvInitialized, fileVersion) IN
    /\ ~crashed /\ epc = "reconfigure"
    /\ IF str = "invariant"
         THEN /\ ok
              /\ crashed' = TRUE
              /\ epc' = "aborted"
              /\ UNCHANGED events
         ELSE /\ events' = Append(events, Ev("reconfigure", <<str>>))
              /\ crashed' = ~ok
              /\ epc' = (IF ok THEN "close2" ELSE "aborted")
    /\ UNCHANGED <<jfShuttingDown, ckptShuttingDown, swShuttingDown, conn, eloc>>
    /\ CsUnchanged

\* invariantWTOK(conn->close(conn, closeConfig))
CsCloseAgain(ok) ==
    /\ ~crashed /\ epc = "close2"
    /\ events' = Append(events, Ev("close", UseTimestamp(FALSE)))
    /\ crashed' = ~ok
    /\ conn' = (IF ok THEN "closed" ELSE conn)
    /\ epc' = (IF ok THEN "done" ELSE "aborted")
    /\ UNCHANGED <<jfShuttingDown, ckptShuttingDown, swShuttingDown, eloc>>
    /\ CsUnchanged

\* the member _conn is a null pointer: never opened, or set to nullptr by
\* the downgrade path of cleanShutdown
ConnIsNull == conn = "none" \/ eloc.connNulled

\* ~WiredTigerKVEngine: if (_conn) cleanShutdown(), which passes its own
\* test of _conn and goes on to the workers
Destructor ==
    /\ ~crashed /\ epc \in {"running", "done"} /\ ~eloc.destructor
    /\ eloc' = [eloc EXCEPT !.destructor = TRUE]
    /\ epc' = (IF ConnIsNull THEN "destroyed" ELSE "sweeper")
    /\ UNCHANGED <<jfShuttingDown, ckptShuttingDown, crashed, swShuttingDown, conn, events>>
    /\ CsUnchanged

\* ------------------------------------------------------------------------
\* Operations of the running engine: the references to the oplog manager
\* ------------------------------------------------------------------------
\* largest value of _oplogManagerCount
MaxOplogCount == 3

\* largest number of calls made on the oplog manager
MaxOplogCalls == 4

OmUnchanged ==
    UNCHANGED <<enableMajorityReadConcern, hasKeyDB, durable, nCallers,
                stableTimestamp, initialDataTimestamp, firstStableCheckpointTaken,
                lastStableCheckpointTimestamp, ckptShuttingDown, ckptPc, ckptLoc,
                jfShuttingDown, jfPc, oldestTimestamp, cpc, cloc,
                wakes, crossed, stableReceived,
                dropVars, engVars, hdqVars, bk, sv, mig>>

\* a thread calls startOplogManager ("start") or haltOplogManager ("halt")
\* and comes to the lock on _oplogManagerMutex
OmCall(c, op) ==
    /\ ~crashed /\ c <= nCallers /\ om.pc[c] = "idle"
    /\ om' = [om EXCEPT !.pc[c] = IF op = "start" THEN "lockStart" ELSE "lockHalt"]
    /\ UNCHANGED crashed
    /\ OmUnchanged

\* stdx::lock_guard / unique_lock on _oplogManagerMutex
OmLock(c) ==
    /\ ~crashed /\ om.pc[c] \in {"lockStart", "lockHalt"}
    /\ om.mutex = 0
    /\ om' = [om EXCEPT !.mutex = c, !.pc[c] = IF om.pc[c] = "lockStart" THEN "start" ELSE "halt"]
    /\ UNCHANGED crashed
    /\ OmUnchanged

\* StartOplogManager that starts the manager at every call
StartOplogManager_M40(c) ==
    /\ ~crashed /\ om.pc[c] = "start"
    /\ om.count < MaxOplogCount /\ Len(om.calls) < MaxOplogCalls
    /\ om' = [om EXCEPT !.running = TRUE, !.calls = Append(om.calls, "start"),
                        !.count = om.count + 1, !.mutex = 0, !.pc[c] = "idle"]
    /\ UNCHANGED crashed
    /\ OmUnchanged

\* startOplogManager under the mutex: if (_oplogManagerCount == 0)
\* _oplogManager->start(...); _oplogManagerCount++
StartOplogManager(c) ==
    /\ ~crashed /\ om.pc[c] = "start"
    /\ om.count < MaxOplogCount
    /\ om.count = 0 => Len(om.calls) < MaxOplogCalls
    /\ om' = [om EXCEPT !.running = IF om.count = 0 THEN TRUE ELSE om.running,
                        !.calls = IF om.count = 0 THEN Append(om.calls, "start")
                                  ELSE om.calls,
                        !.count = om.count + 1, !.mutex = 0, !.pc[c] = "idle"]
    /\ UNCHANGED crashed
    /\ OmUnchanged

\* haltOplogManager under the mutex: invariant(_oplogManagerCount > 0);
\* _oplogManagerCount--; if (_oplogManagerCount == 0) _oplogManager->halt()
HaltOplogManager(c) ==
    /\ ~crashed /\ om.pc[c] = "halt"
    /\ om.count = 1 => Len(om.calls) < MaxOplogCalls
    /\ IF om.count > 0
         THEN /\ om' = [om EXCEPT !.running = IF om.count = 1 THEN FALSE ELSE om.running,
                                  !.calls = IF om.count = 1 THEN Append(om.calls, "halt")
                                            ELSE om.calls,
                                  !.count = om.count - 1, !.mutex = 0, !.pc[c] = "idle"]
              /\ UNCHANGED crashed
         ELSE /\ om' = [om EXCEPT !.pc[c] = "aborted"]
              /\ crashed' = TRUE
    /\ OmUnchanged

\* The ident manager: callers of dropIdent, the reaper and the storage core
DropSpecNext ==
    \/ \E i \in Idents : CreateTable(i)
    \/ \E i \in Idents : OpenCursor(i)
    \/ \E i \in Idents : CloseCursors(i)
    \/ \E c \in Callers, i \in Idents, ret \in {0, ENOENT, EBUSY, EINVAL} :
          DropIdent(c, i, ret)
    \/ \E c \in Callers : DropIdentEnqueue(c)
    \/ ReaperStart
    \/ \E ret \in {0, ENOENT, EBUSY, EINVAL} : ReaperTake(ret)
    \/ ReaperRequeue

DropSpecInit == InitTs(1, {0}, {TRUE}, {FALSE}, {TRUE}) /\ InitDrop /\ InitEngRunning

DropSpec == DropSpecInit /\ [][DropSpecNext]_vars

\* ------------------------------------------------------------------------
\* The timestamp coordinator and its threads
\* ------------------------------------------------------------------------
Snapshots == Ts \cup {None}


\* Calls of the timestamp coordinator by one caller thread
Next ==
    \/ \E c \in Callers : Return(c)
    \/ \E c \in Callers, ts \in Ts : SetInitialDataTimestamp(c, ts)
    \/ \E c \in Callers, ts \in Ts : SetStableTimestamp(c, ts)
    \/ \E c \in Callers : SetStableSwap(c)
    \/ \E c \in Callers : SetStableTrigger(c)
    \/ \E c \in Callers, ts \in Ts, force \in BOOLEAN : SetOldestTimestamp(c, ts, force)
    \/ \E c \in Callers, fp \in BOOLEAN, o \in Ts, l \in Snapshots :
          SetOldestPush(c, fp, o, l)
    \/ \E c \in Callers : SetOldestUpdate(c)
    \/ \E c \in Callers : SetOldestStore(c)

Init == InitTs(1, Ts, BOOLEAN, {TRUE}, {TRUE}) /\ InitDropIdle /\ InitEngRunning

Spec == Init /\ [][Next]_vars

\* setOldestTimestamp without force called by two threads at once
OldestSpecNext ==
    \/ \E c \in Callers : Return(c)
    \/ \E c \in Callers, ts \in Ts : SetOldestTimestamp(c, ts, FALSE)
    \/ \E c \in Callers : SetOldestPush(c, FALSE, 0, None)
    \/ \E c \in Callers : SetOldestUpdate(c)
    \/ \E c \in Callers : SetOldestStore(c)

OldestSpecInit == InitTs(2, {0}, {TRUE}, {FALSE}, {TRUE}) /\ InitDropIdle /\ InitEngRunning

OldestSpec == OldestSpecInit /\ [][OldestSpecNext]_vars

\* The checkpoint thread running against a caller that moves the stable and
\* the initial data timestamps; no oplog reader and no local snapshot lag
\* the oldest timestamp here
CkptSpecNext ==
    \/ CkptLoopTest
    \/ CkptSampleStable
    \/ CkptSampleInitialData
    \/ \E o \in CheckpointOutcomes : CkptBranchStep(o)
    \/ CkptReloadStable
    \/ \E o \in CheckpointOutcomes : CkptStableCheckpoint(o)
    \/ \E o \in CheckpointOutcomes : CkptKeyDB(o)
    \/ \E c \in Callers : Return(c)
    \/ \E c \in Callers, ts \in Ts : SetInitialDataTimestamp(c, ts)
    \/ \E c \in Callers, ts \in Ts : SetStableTimestamp(c, ts)
    \/ \E c \in Callers : SetStableSwap(c)
    \/ \E c \in Callers : SetStableTrigger(c)
    \/ \E c \in Callers, fp \in BOOLEAN : SetOldestPush(c, fp, 0, None)
    \/ \E c \in Callers : SetOldestUpdate(c)
    \/ \E c \in Callers : SetOldestStore(c)

CkptSpecInit == InitTs(1, Ts, BOOLEAN, BOOLEAN, {TRUE}) /\ InitDropIdle /\ InitEngRunning

CkptSpec == CkptSpecInit /\ [][CkptSpecNext]_vars

\* recoverToStableTimestamp with the two threads it stops and restarts
RtsSpecNext ==
    \/ CkptLoopTest
    \/ CkptSampleStable
    \/ CkptSampleInitialData
    \/ \E o \in CheckpointOutcomes : CkptBranchStep(o)
    \/ CkptReloadStable
    \/ \E o \in CheckpointOutcomes : CkptStableCheckpoint(o)
    \/ \E o \in CheckpointOutcomes : CkptKeyDB(o)
    \/ JfLoopTest
    \/ JfFlush
    \/ \E c \in Callers : Return(c)
    \/ \E c \in Callers, ts \in Ts : SetInitialDataTimestamp(c, ts)
    \/ \E c \in Callers : RecoverToStableTimestamp(c)
    \/ \E c \in Callers : RtsLoadInitialData(c)
    \/ \E c \in Callers : RtsLoadStable(c)
    \/ \E c \in Callers, ub \in NullCallOutcomes : RtsShutdownJournalFlusher(c, ub)
    \/ \E c \in Callers : RtsJoinJournalFlusher(c)
    \/ \E c \in Callers : RtsShutdownCheckpointThread(c)
    \/ \E c \in Callers : RtsJoinCheckpointThread(c)
    \/ \E c \in Callers, ok \in BOOLEAN : RtsRollback(c, ok)
    \/ \E c \in Callers : RtsRestart(c)

RtsSpecInit == InitTs(1, Ts, BOOLEAN, {FALSE}, BOOLEAN) /\ InitDropIdle /\ InitEngRunning

RtsSpec == RtsSpecInit /\ [][RtsSpecNext]_vars

\* Concurrent setStableTimestamp calls and recoverToStableTimestamp against
\* the running checkpoint thread and journal flusher, after a start with or
\* without a recovery timestamp; the checkpoints succeed
StableSpecNext ==
    \/ CkptLoopTest
    \/ CkptSampleStable
    \/ CkptSampleInitialData
    \/ CkptBranchStep("ok")
    \/ CkptReloadStable
    \/ CkptStableCheckpoint("ok")
    \/ CkptKeyDB("ok")
    \/ JfLoopTest
    \/ JfFlush
    \/ \E c \in Callers : Return(c)
    \/ \E c \in Callers : SetInitialDataTimestamp(c, 2)
    \/ \E c \in Callers, ts \in {1, 2} : SetStableTimestamp(c, ts)
    \/ \E c \in Callers : SetStableSwap(c)
    \/ \E c \in Callers : SetStableTrigger(c)
    \/ \E c \in Callers : SetOldestPush(c, FALSE, 0, None)
    \/ \E c \in Callers : SetOldestUpdate(c)
    \/ \E c \in Callers : SetOldestStore(c)
    \/ RecoverToStableTimestamp(1)
    \/ \E c \in Callers : RtsLoadInitialData(c)
    \/ \E c \in Callers : RtsLoadStable(c)
    \/ \E c \in Callers : RtsShutdownJournalFlusher(c, "pass")
    \/ \E c \in Callers : RtsJoinJournalFlusher(c)
    \/ \E c \in Callers : RtsShutdownCheckpointThread(c)
    \/ \E c \in Callers : RtsJoinCheckpointThread(c)
    \/ \E c \in Callers, ok \in BOOLEAN : RtsRollback(c, ok)
    \/ \E c \in Callers : RtsRestart(c)

StableSpecInit ==
    InitTs(2, {0, 2}, {TRUE}, {FALSE}, {TRUE}) /\ InitDropIdle /\ InitEngRunning

StableSpec == StableSpecInit /\ [][StableSpecNext]_vars

\* The constructor moving the key DB out of a legacy directory that holds
\* every tree of a few files
MigrateSpecNext ==
    \/ \E tree \in TreesUpTo(MaxLegacyFiles), ok \in BOOLEAN : MigrateCopy(tree, ok)
    \/ \E f \in FilePaths : MigrateRemoveFile(f)
    \/ \E d \in DirPaths : MigrateRemoveDir(d)
    \/ MigrateDone

MigrateSpecInit ==
    /\ enableMajorityReadConcern = TRUE
    /\ hasKeyDB = FALSE
    /\ readOnly = FALSE /\ ephemeral = FALSE /\ durable = TRUE
    /\ inRepairMode = FALSE
    /\ encryptionParams = [enableEncryption |-> TRUE, vaultRotateMasterKey |-> FALSE]
    /\ nCallers = 0
    /\ stableTimestamp = 0 /\ initialDataTimestamp = 0 /\ oldestTimestamp = 0
    /\ firstStableCheckpointTaken = FALSE /\ lastStableCheckpointTimestamp = 0
    /\ ckptShuttingDown = FALSE /\ ckptPc = "null" /\ ckptLoc = IdleCkptLoc
    /\ jfShuttingDown = FALSE /\ jfPc = "null"
    /\ cpc = [c \in Callers |-> "idle"] /\ cloc = [c \in Callers |-> IdleLoc]
    /\ crashed = FALSE /\ wakes = 0 /\ crossed = FALSE /\ stableReceived = TRUE
    /\ InitOpIdle
    /\ InitDropIdle
    /\ fileVersion = "unset"
    /\ recoveryTimestamp = 0
    /\ conn = "none"
    /\ fs = [IdleFs EXCEPT !.journal = TRUE, !.beta = KeyDir(0, KeyRecords)]
    /\ swShuttingDown = FALSE /\ swPc = "null"
    /\ epc = "keydbDir"
    /\ eloc = IdleEngLoc
    /\ starts = 1
    /\ events = <<>>

MigrateSpec == MigrateSpecInit /\ [][MigrateSpecNext]_vars

\* repairIdent on every ident, in and out of repair mode, with every result
\* of verify, salvage, rename, metadata read, drop and create
RepairSpecNext ==
    \/ \E ident \in Idents : CreateTable(ident)
    \/ \E ident \in Idents : OpenCursor(ident)
    \/ \E ident \in Idents : CloseCursors(ident)
    \/ \E ident \in Idents : RepairIdent(ident)
    \/ \E rc \in VerifyResults : SvVerify(rc)
    \/ \E rc \in CallResults : SvSalvage(rc)
    \/ \E hasFile, renamed \in BOOLEAN : SvRebuildRename(hasFile, renamed)
    \/ \E found \in BOOLEAN : SvGetMetadata(found)
    \/ \E rc \in VerifyResults : SvDrop(rc)
    \/ \E rc \in CallResults : SvCreate(rc)
    \/ SvReturn

RepairSpecInit ==
    /\ InitTs(1, {0}, {TRUE}, {FALSE}, {TRUE})
    /\ InitDropIdle
    /\ InitOpIdle
    /\ readOnly = FALSE /\ ephemeral \in BOOLEAN /\ inRepairMode \in BOOLEAN
    /\ encryptionParams = [enableEncryption |-> FALSE, vaultRotateMasterKey |-> FALSE]
    /\ fileVersion = "IS_40"
    /\ recoveryTimestamp = 0
    /\ conn = "open"
    /\ fs = IdleFs
    /\ swShuttingDown = FALSE
    /\ swPc = "top"
    /\ epc = "running"
    /\ eloc = IdleEngLoc
    /\ starts = 1
    /\ events = <<>>

RepairSpec == RepairSpecInit /\ [][RepairSpecNext]_vars

\* Hot backups to a directory and to S3, of engines with and without a key
\* DB and with and without a journal, with every failure of a step
BackupSpecNext ==
    \/ \E mode \in {"copy", "s3"} : HotBackup(mode)
    \/ \E outcome \in {"ok", "log_flush", "open_cursor"} : HbOpenMain(outcome)
    \/ \E outcome \in {"ok", "log_flush", "open_cursor"} : HbOpenKeyDB(outcome)
    \/ \E outcome \in {"file", "journal", "missing", "WT_NOTFOUND", "error", "throw"} :
          HbNext(outcome)
    \/ \E outcome \in {"ok", "throw"} : HbStorageMetadata(outcome)
    \/ \E outcome \in {"ok", "filesystem_error", "exception"} : HbCopyFile(outcome)
    \/ \E outcome \in {"ok", "InvalidPath", "InternalError"} : HbS3Prepare(outcome)
    \/ \E outcome \in {"ok", "open", "error"} : HbPutObject(outcome)
    \/ HbReturn

BackupSpecInit ==
    /\ InitTs(1, {0}, {TRUE}, BOOLEAN, BOOLEAN)
    /\ InitDropIdle
    /\ InitEngRunning

BackupSpec == BackupSpecInit /\ [][BackupSpecNext]_vars

\* haveDropsQueued called by two threads while one table is created, used,
\* dropped and reaped and while the session cache filters its cursors
HdqSpecNext ==
    \/ Tick
    \/ \E c \in Callers : HaveDropsQueued(c)
    \/ \E c \in Callers : HdqStore(c)
    \/ \E c \in Callers : HdqTryLock(c)
    \/ \E c \in Callers : HdqReturn(c)
    \/ FilterCursorsLock
    \/ FilterCursorsReturn
    \/ CreateTable(1)
    \/ OpenCursor(1)
    \/ CloseCursors(1)
    \/ \E ret \in {0, EBUSY} : DropIdent(1, 1, ret)
    \/ DropIdentEnqueue(1)
    \/ ReaperStart
    \/ \E ret \in {0, EBUSY} : ReaperTake(ret)
    \/ ReaperRequeue

HdqSpecInit ==
    /\ InitTs(2, {0}, {TRUE}, {FALSE}, {TRUE})
    /\ InitDropIdle
    /\ InitEngRunning

HdqSpec == HdqSpecInit /\ [][HdqSpecNext]_vars

\* The ident manager with a storage core that gives only the results the
\* engine expects.  The reaper is called again and again by its background
\* caller and a thread inside dropIdent or dropSomeQueuedIdents keeps running.
LiveDropSpecNext ==
    \/ \E i \in Idents : CreateTable(i)
    \/ \E i \in Idents : OpenCursor(i)
    \/ \E i \in Idents : CloseCursors(i)
    \/ \E c \in Callers, i \in Idents, ret \in {0, ENOENT, EBUSY} : DropIdent(c, i, ret)
    \/ \E c \in Callers : DropIdentEnqueue(c)
    \/ ReaperStart
    \/ \E ret \in {0, ENOENT, EBUSY} : ReaperTake(ret)
    \/ ReaperRequeue

LiveDropSpec ==
    /\ DropSpecInit
    /\ [][LiveDropSpecNext]_vars
    /\ WF_vars(ReaperStart)
    /\ WF_vars(\E ret \in {0, ENOENT, EBUSY} : ReaperTake(ret))
    /\ WF_vars(ReaperRequeue)
    /\ \A c \in Callers : WF_vars(DropIdentEnqueue(c))

\* The shutdown of an engine: the constructor starts the workers on an open
\* connection, the workers run, cleanShutdown stops them and closes
ShutdownSpecNext ==
    \/ \E rec \in Ts, fp \in BOOLEAN : CtorStartWorkers(rec, fp, TRUE)
    \/ SwLoopTest
    \/ SwSweep
    \/ JfLoopTest
    \/ JfFlush
    \/ CkptLoopTest
    \/ CkptSampleStable
    \/ CkptSampleInitialData
    \/ \E o \in {"ok", "wce", "shutdown"} : CkptBranchStep(o)
    \/ CkptReloadStable
    \/ \E o \in {"ok", "wce", "shutdown"} : CkptStableCheckpoint(o)
    \/ CkptKeyDB("ok")
    \/ CleanShutdown
    \/ CsShutdownSweeper
    \/ CsJoinSweeper
    \/ CsShutdownJournalFlusher
    \/ CsJoinJournalFlusher
    \/ CsShutdownCheckpointThread
    \/ CsJoinCheckpointThread
    \/ \E a \in BOOLEAN, fi \in BOOLEAN, fd \in BOOLEAN, rs \in BOOLEAN : CsDecide(a, fi, fd, rs)
    \/ \E ok \in BOOLEAN : CsClose(ok)
    \/ \E ok \in BOOLEAN, m \in {s \in SUBSET (1..Len(MetadataKeys)) : Cardinality(s) <= MaxMeta} :
          CsReopen(ok, m)
    \/ \E ok \in BOOLEAN : CsCursorNext(ok)
    \/ \E ok \in BOOLEAN : CsReconfigure(ok)
    \/ \E ok \in BOOLEAN : CsCloseAgain(ok)

\* the state of the constructor when _openWiredTiger returned
ShutdownSpecInit ==
    /\ enableMajorityReadConcern \in BOOLEAN
    /\ hasKeyDB = FALSE
    /\ readOnly \in BOOLEAN /\ ephemeral \in BOOLEAN /\ durable \in BOOLEAN
    /\ readOnly => ~durable
    /\ inRepairMode = FALSE
    /\ encryptionParams = [enableEncryption |-> FALSE, vaultRotateMasterKey |-> FALSE]
    /\ nCallers = 0
    /\ stableTimestamp = 0 /\ initialDataTimestamp = 0 /\ oldestTimestamp = 0
    /\ firstStableCheckpointTaken = FALSE /\ lastStableCheckpointTimestamp = 0
    /\ ckptShuttingDown = FALSE /\ ckptPc = "null" /\ ckptLoc = IdleCkptLoc
    /\ jfShuttingDown = FALSE /\ jfPc = "null"
    /\ cpc = [c \in Callers |-> "idle"] /\ cloc = [c \in Callers |-> IdleLoc]
    /\ crashed = FALSE /\ wakes = 0 /\ crossed = FALSE /\ stableReceived = TRUE
    /\ InitOpIdle
    /\ InitDropIdle
    /\ fileVersion \in StartupVersions
    /\ recoveryTimestamp = 0
    /\ conn = "open"
    /\ fs = IdleFs
    /\ swShuttingDown = FALSE /\ swPc = "null"
    /\ epc = "startWorkers"
    /\ eloc = IdleEngLoc
    /\ starts = 1
    /\ events = <<>>

ShutdownSpec == ShutdownSpecInit /\ [][ShutdownSpecNext]_vars

\* The three workers and the three shutdown() calls of cleanShutdown, with
\* threads that are scheduled, storage calls that return and waits that end
LiveShutdownSpecNext ==
    \/ \E rec \in {0, 2} : CtorStartWorkers(rec, FALSE, TRUE)
    \/ SwLoopTest
    \/ SwSweep
    \/ JfLoopTest
    \/ JfFlush
    \/ CkptLoopTest
    \/ CkptSampleStable
    \/ CkptSampleInitialData
    \/ \E o \in {"ok", "wce", "shutdown"} : CkptBranchStep(o)
    \/ CkptReloadStable
    \/ \E o \in {"ok", "wce", "shutdown"} : CkptStableCheckpoint(o)
    \/ CkptKeyDB("ok")
    \/ CleanShutdown
    \/ CsShutdownSweeper
    \/ CsJoinSweeper
    \/ CsShutdownJournalFlusher
    \/ CsJoinJournalFlusher
    \/ CsShutdownCheckpointThread
    \/ CsJoinCheckpointThread

\* startOplogManager and haltOplogManager called by two threads in any order
OplogSpecNext ==
    \/ \E c \in Callers, op \in {"start", "halt"} : OmCall(c, op)
    \/ \E c \in Callers : OmLock(c)
    \/ \E c \in Callers : StartOplogManager(c)
    \/ \E c \in Callers : HaltOplogManager(c)

OplogSpecInit == InitTs(2, {0}, {TRUE}, {FALSE}, {TRUE}) /\ InitDropIdle /\ InitEngRunning

OplogSpec == OplogSpecInit /\ [][OplogSpecNext]_vars

\* The lifetime of an engine: the workers, an explicit cleanShutdown on
\* either path and the destructor after it
LifetimeSpecNext ==
    \/ LiveShutdownSpecNext
    \/ \E a \in BOOLEAN, fi \in BOOLEAN, fd \in BOOLEAN, rs \in BOOLEAN : CsDecide(a, fi, fd, rs)
    \/ \E ok \in BOOLEAN : CsClose(ok)
    \/ \E ok \in BOOLEAN, m \in {s \in SUBSET (1..Len(MetadataKeys)) : Cardinality(s) <= 1} :
          CsReopen(ok, m)
    \/ \E ok \in BOOLEAN : CsCursorNext(ok)
    \/ \E ok \in BOOLEAN : CsReconfigure(ok)
    \/ \E ok \in BOOLEAN : CsCloseAgain(ok)
    \/ Destructor

LifetimeSpec == ShutdownSpecInit /\ [][LifetimeSpecNext]_vars

LiveShutdownSpec ==
    /\ ShutdownSpecInit
    /\ [][LiveShutdownSpecNext]_vars
    /\ WF_vars(SwLoopTest) /\ WF_vars(SwSweep)
    /\ WF_vars(JfLoopTest) /\ WF_vars(JfFlush)
    /\ WF_vars(CkptLoopTest) /\ WF_vars(CkptSampleStable) /\ WF_vars(CkptSampleInitialData)
    /\ WF_vars(\E o \in {"ok", "wce", "shutdown"} : CkptBranchStep(o))
    /\ WF_vars(CkptReloadStable)
    /\ WF_vars(\E o \in {"ok", "wce", "shutdown"} : CkptStableCheckpoint(o))
    /\ WF_vars(CkptKeyDB("ok"))
    /\ WF_vars(CsJoinSweeper) /\ WF_vars(CsJoinJournalFlusher)
    /\ WF_vars(CsJoinCheckpointThread)

\* The start of an engine: the constructor from its first statement to the
\* start of the workers, killed or failing at any step and started again
StartSpecNext ==
    \/ \E ok \in BOOLEAN : CtorJournalDir(ok)
    \/ \E ok \in BOOLEAN : CtorKeyDBDir(ok)
    \/ \E ok \in BOOLEAN : CtorKeyDBInit(ok)
    \/ \E ok \in BOOLEAN : RotCreateDir(ok)
    \/ \E ok \in BOOLEAN : RotInit(ok)
    \/ \E ok \in BOOLEAN : RotClone(ok)
    \/ \E ok \in BOOLEAN : RotStoreMasterKey(ok)
    \/ \E ok \in BOOLEAN : RotRemoveBackup(ok)
    \/ \E ok \in BOOLEAN : RotRenamePrimary(ok)
    \/ \E ok \in BOOLEAN : RotRenameRotation(ok)
    \/ CtorConfig
    \/ \E ret \in OpenResults : NjOpen(ret)
    \/ \E ok \in BOOLEAN : NjClose(ok)
    \/ \E ok \in BOOLEAN : NjRemoveJournal(ok)
    \/ \E ret \in OpenResults : OwtOpen(ret)
    \/ \E ret \in OpenResults, v \in StartupVersions : OwtSalvage(ret, v)
    \/ \E rec \in Ts, fp \in BOOLEAN, ok \in BOOLEAN : CtorStartWorkers(rec, fp, ok)
    \/ Crash
    \/ \E e \in BOOLEAN, r \in BOOLEAN : Restart(e, r)

\* the state before the first start: no thread, no connection, a dbpath with
\* or without a journal, a key DB and a legacy key DB
StartSpecInit ==
    /\ enableMajorityReadConcern \in BOOLEAN
    /\ hasKeyDB = FALSE
    /\ readOnly \in BOOLEAN /\ ephemeral \in BOOLEAN /\ durable \in BOOLEAN
    /\ inRepairMode \in BOOLEAN
    /\ encryptionParams \in
         {[enableEncryption |-> e, vaultRotateMasterKey |-> r] :
            e \in BOOLEAN, r \in BOOLEAN} \ {[enableEncryption |-> FALSE,
                                             vaultRotateMasterKey |-> TRUE]}
    /\ nCallers = 0
    /\ stableTimestamp = 0 /\ initialDataTimestamp = 0 /\ oldestTimestamp = 0
    /\ firstStableCheckpointTaken = FALSE /\ lastStableCheckpointTimestamp = 0
    /\ ckptShuttingDown = FALSE /\ ckptPc = "null" /\ ckptLoc = IdleCkptLoc
    /\ jfShuttingDown = FALSE /\ jfPc = "null"
    /\ cpc = [c \in Callers |-> "idle"] /\ cloc = [c \in Callers |-> IdleLoc]
    /\ crashed = FALSE /\ wakes = 0 /\ crossed = FALSE /\ stableReceived = TRUE
    /\ InitOpIdle
    /\ InitDropIdle
    /\ fileVersion = "unset"
    /\ recoveryTimestamp = 0
    /\ conn = "none"
    /\ \E j \in BOOLEAN, k \in {Absent} \cup {KeyDir(0, r) : r \in SUBSET KeyRecords},
          b \in {Absent, KeyDir(0, KeyRecords)} :
          /\ (k.exists => ~b.exists)
          /\ fs = [IdleFs EXCEPT !.journal = j, !.keydb = k, !.beta = b]
    /\ swShuttingDown = FALSE /\ swPc = "null"
    /\ epc = "ctor"
    /\ eloc = IdleEngLoc
    /\ starts = 1
    /\ events = <<>>

StartSpec == StartSpecInit /\ [][StartSpecNext]_vars

TypeOK ==
    /\ stableTimestamp \in Ts /\ initialDataTimestamp \in Ts /\ oldestTimestamp \in Ts
    /\ lastStableCheckpointTimestamp \in Ts \cup {UINT64_MAX}
    /\ wakes \in 0..2
    /\ Len(identToDrop) <= MaxQueue
    /\ nextSeq \in 1..(MaxQueue + 1)
    /\ rpLoc.i \in 0..rpLoc.numToDelete

\* ------------------------------------------------------------------------
\* Properties
\* ------------------------------------------------------------------------

\* the samples of the tick satisfy the condition of a stable checkpoint
StableCheckpointCondition ==
    /\ ckptLoc.initData > 1
    /\ enableMajorityReadConcern
    /\ ckptLoc.stable >= ckptLoc.initData

\* C1: a tick of the checkpoint thread issues a checkpoint with
\* use_timestamp=true if and only if its sampled initial data timestamp is
\* above 1, majority read concern is enabled and its sampled stable timestamp
\* is not below the sampled initial data timestamp; otherwise it issues an
\* untimestamped checkpoint or none.  A tick that got past its branch has
\* issued one of the three.
C1_StableCheckpointIff ==
    /\ ckptLoc.kind # "none" =>
          /\ (ckptLoc.kind = "stable") <=> StableCheckpointCondition
          /\ ~StableCheckpointCondition => ckptLoc.kind \in {"full", "skip"}
    /\ ckptLoc.kind = "stable" => ckptPc \in {"keydb", "top"}
    /\ ckptPc = "keydb" => ckptLoc.kind # "none"
    /\ ckptPc = "stableCkpt" => StableCheckpointCondition

C1_Witness ==
    /\ ckptPc = "keydb"
    /\ ckptLoc.kind = "stable"
    /\ ckptLoc.initData > 1
    /\ ckptLoc.stable > ckptLoc.initData

\* C2: within a setStableTimestamp(t) call with data history and t # 0 the
\* first push to the storage core is stable_timestamp=t, an oldest_timestamp
\* push of the call comes after it, and the oldest value pushed is at most t.
C2_StableBeforeOldest ==
    \A c \in Callers :
      cloc[c].op = "setStable" =>
        LET p == cloc[c].pushes IN
        /\ (keepDataHistory /\ cloc[c].ts # 0) =>
              (Len(p) >= 1 /\ p[1] = [kind |-> "stable", val |-> cloc[c].ts])
        /\ \A k \in 1..Len(p) :
              p[k].kind = "oldest" =>
                 /\ k = 2
                 /\ p[1] = [kind |-> "stable", val |-> cloc[c].ts]
                 /\ p[k].val <= cloc[c].ts

C2_Witness ==
    \E c \in Callers :
      /\ cloc[c].op = "setStable"
      /\ Len(cloc[c].pushes) = 2
      /\ cloc[c].pushes[2].kind = "oldest"
      /\ cloc[c].pushes[2].val < cloc[c].ts

\* the step is the store of a setOldestTimestamp call with force = true
ForcedStoreStep ==
    \E c \in Callers :
      cpc[c] = "soUpdate" /\ cloc[c].force /\ cpc'[c] = "ret"

\* C3: every step other than the store of a forced setOldestTimestamp leaves
\* the cached oldest timestamp where it is or moves it up.
C3_OldestMonotonic ==
    [][~ForcedStoreStep => oldestTimestamp' >= oldestTimestamp]_vars

C3_Witness ==
    \E c \in Callers :
      /\ cpc[c] = "ret" /\ cloc[c].op = "setOldest" /\ ~cloc[c].force
      /\ Len(cloc[c].pushes) = 1
      /\ cloc[c].val < oldestTimestamp

\* C4 as claimed: a non-forced setOldestTimestamp never pushes a value above
\* the current stable timestamp.
C4_Original ==
    \A c \in Callers :
      (cpc[c] = "soUpdate" /\ ~cloc[c].force /\ stableTimestamp # 0) =>
         cloc[c].val <= stableTimestamp

\* C4 amended: the value a non-forced setOldestTimestamp(ts) pushes is at
\* most ts, at most the oplog read timestamp when that is not zero, and at
\* most the local snapshot timestamp when that is defined.
C4_ClampedToReaders ==
    [][\A c \in Callers, fp \in BOOLEAN, o \in Ts, l \in Snapshots :
          (SetOldestPush(c, fp, o, l) /\ cpc'[c] = "soUpdate" /\ ~cloc[c].force) =>
             /\ cloc'[c].val <= cloc[c].ts
             /\ o # 0 => cloc'[c].val <= o
             /\ l # None => cloc'[c].val <= l]_vars

C4_Witness ==
    \E c \in Callers :
      /\ cpc[c] = "soUpdate" /\ ~cloc[c].force
      /\ cloc[c].val < cloc[c].ts
      /\ stableTimestamp # 0
      /\ cloc[c].val > stableTimestamp

\* the reaper has taken the entry of the uri off the queue, found the table
\* busy and has not yet re-enqueued it
ReaperHolds(uri) == rpPc = "requeue" /\ rpLoc.uri = uri

PendingEntries ==
    {[seq |-> identToDrop[k].seq, tried |-> identToDrop[k].tried] :
        k \in 1..Len(identToDrop)}
    \cup (IF rpPc = "requeue"
            THEN {[seq |-> rpLoc.seq, tried |-> TRUE]} ELSE {})

C7_DropIdentResults ==
    [][\A c \in 1..nCallers :
          /\ \A i \in Idents, ret \in {0, ENOENT} :
                DropIdent(c, i, ret) =>
                   (identToDrop' = identToDrop /\ dpc'[c] = "idle" /\ ~crashed')
          /\ (dpc[c] = "idle" /\ dpc'[c] # "idle") =>
                /\ identToDrop' = identToDrop
                /\ dloc'[c].ret \notin {0, ENOENT}
                /\ IF dloc'[c].ret = EBUSY
                     THEN dpc'[c] = "enqueue" /\ ~crashed'
                     ELSE dpc'[c] = "aborted" /\ crashed'
          /\ (dpc[c] = "enqueue" /\ dpc'[c] # "enqueue") =>
                /\ dpc'[c] = "idle" /\ ~crashed'
                /\ Len(identToDrop') = Len(identToDrop) + 1
                /\ \E k \in 1..Len(identToDrop') :
                      /\ identToDrop'[k].uri = Uri(dloc[c].ident)
                      /\ [j \in 1..Len(identToDrop) |->
                            identToDrop'[IF j < k THEN j ELSE j + 1]] = identToDrop
          /\ dpc[c] = "aborted" => dpc'[c] = "aborted"]_vars

C7_Witness ==
    \E c \in Callers, i \in Idents :
      /\ dpc[c] = "idle" /\ ~crashed
      /\ dropReturnedOK[i] /\ InQueue(Uri(i))
      /\ Len(identToDrop) = 2

\* the table of the ident is dropped and no entry for it is pending
Gone(i) == ~HasIdent(i) /\ ~InQueue(Uri(i)) /\ ~ReaperHolds(Uri(i))

C9_Original ==
    \A c \in Callers :
      (/\ cloc[c].op = "recoverToStable"
       /\ SupportsRecoverToStableTimestamp
       /\ stableTimestamp < initialDataTimestamp
       /\ cpc[c] \notin {"rtsLoadInit", "rtsLoadStable"}) =>
         /\ cpc[c] = "ret"
         /\ cloc[c].ret = "UnrecoverableRollbackError"
         /\ ~cloc[c].jfDown /\ ~cloc[c].ckDown /\ ~cloc[c].rolledBack

\* C9 amended: a recoverToStableTimestamp call made while the stable
\* timestamp is below the initial data timestamp stops no thread and rolls
\* nothing back; it returns UnrecoverableRollbackError when the initial data
\* timestamp is above the sentinel 1 and aborts the process on the invariant
\* of canRecoverToStableTimestamp when it is 0 or 1.
C9_NeverProceeds ==
    \A c \in Callers :
      (/\ cloc[c].op = "recoverToStable"
       /\ SupportsRecoverToStableTimestamp
       /\ stableTimestamp < initialDataTimestamp) =>
         /\ cpc[c] \in {"rtsLoadInit", "rtsLoadStable", "ret", "aborted"}
         /\ ~cloc[c].jfDown /\ ~cloc[c].ckDown /\ ~cloc[c].rolledBack
         /\ cpc[c] = "ret" =>
               (cloc[c].ret = "UnrecoverableRollbackError"
                  /\ cloc[c].initData > kAllowUnstableCheckpointsSentinel)
         /\ cpc[c] = "rtsLoadStable" =>
               cloc[c].initData > kAllowUnstableCheckpointsSentinel
         /\ cpc[c] = "aborted" =>
               (crashed /\ cloc[c].initData <= kAllowUnstableCheckpointsSentinel)

C9_Witness ==
    \E c \in Callers :
      /\ cpc[c] = "ret" /\ cloc[c].op = "recoverToStable"
      /\ cloc[c].ret = "UnrecoverableRollbackError"
      /\ cloc[c].stable < cloc[c].initData
      /\ cloc[c].stable # 0
      /\ ~jfShuttingDown /\ ~ckptShuttingDown

\* C10: the checkpoint thread has been notified by setStableTimestamp once
\* if some setStableTimestamp call took the stable timestamp from below the
\* initial data timestamp to it or above, and never otherwise; the
\* notification is made by the first such call.
C10_OneShotTrigger ==
    /\ wakes = (IF crossed THEN 1 ELSE 0)
    /\ firstStableCheckpointTaken = crossed

C10_Witness ==
    \E c \in Callers :
      /\ cpc[c] = "soEnter" /\ cloc[c].op = "setStable"
      /\ cloc[c].prev = cloc[c].ts
      /\ initialDataTimestamp > 1
      /\ cloc[c].ts >= initialDataTimestamp
      /\ wakes = 1

\* a worker that was never started or whose run() returned
Terminated(pc) == pc \in {"null", "exited"}

\* C11: cleanShutdown stops the workers in the order sweeper, journal
\* flusher, checkpoint thread, each joined before the next is told to stop,
\* and the connection is closed only when all three have terminated: the
\* journal flusher's flag is set only when the sweeper has terminated, the
\* checkpoint thread's flag only when the journal flusher has terminated too,
\* a close is issued only when all three have, and no worker is running in a
\* state where the connection is closed
C11_ShutdownOrder ==
    /\ jfShuttingDown => Terminated(swPc)
    /\ ckptShuttingDown => Terminated(swPc) /\ Terminated(jfPc)
    /\ (events # <<>> \/ conn = "closed")
          => Terminated(swPc) /\ Terminated(jfPc) /\ Terminated(ckptPc)

\* the connection was closed after three workers that ran were joined
C11_Witness ==
    /\ conn = "closed" /\ epc = "done"
    /\ swPc = "exited" /\ jfPc = "exited" /\ ckptPc = "exited"

\* C12: recoverToStableTimestamp calls rollback_to_stable only while the
\* journal flusher and the checkpoint thread have terminated, joined by their
\* shutdown(); the call that returns a timestamp went through the rollback,
\* starts the new checkpoint thread at the top of run() with the stable and
\* the initial data timestamp the stopped thread held, and returns that
\* stable timestamp.
C12_RollbackWhileJoined ==
    [][\A c \in Callers :
         /\ (\E ok \in BOOLEAN : RtsRollback(c, ok)) =>
               /\ ckptPc = "exited" /\ ckptShuttingDown
               /\ Terminated(jfPc) /\ (durable => jfPc = "exited")
               /\ cloc[c].stable = stableTimestamp
               /\ cloc[c].initData = initialDataTimestamp
         /\ RtsRestart(c) =>
               /\ cloc[c].rolledBack
               /\ ckptPc = "exited" /\ ckptPc' = "top" /\ ~ckptShuttingDown'
               /\ stableTimestamp' = stableTimestamp
               /\ initialDataTimestamp' = initialDataTimestamp
               /\ cloc'[c].ret = "OK" /\ cloc'[c].val = stableTimestamp]_vars

\* a call returned a non-zero stable timestamp after a rollback with both
\* threads restarted
C12_Witness ==
    \E c \in Callers :
      /\ cpc[c] = "ret" /\ cloc[c].op = "recoverToStable" /\ cloc[c].ret = "OK"
      /\ cloc[c].rolledBack /\ cloc[c].jfDown /\ cloc[c].ckDown
      /\ cloc[c].val = stableTimestamp /\ cloc[c].val > cloc[c].initData
      /\ ckptPc = "top" /\ jfPc = "top"

\* C13: the decision cleanShutdown takes from shouldDowngrade is the table:
\* read-only, no downgrade, also for an arbiter; else arbiter, downgrade;
\* else feature compatibility version not initialized, downgrade iff the
\* startup version is one of the two older ones; else not fully downgraded,
\* no downgrade; else downgrade iff the node uses replica sets or has no
\* recovery timestamp.
C13_DowngradeTable ==
    eloc.decided =>
      /\ readOnly => ~eloc.downgrade
      /\ (~readOnly /\ eloc.arbiter) => eloc.downgrade
      /\ (~readOnly /\ ~eloc.arbiter /\ ~eloc.fcvInitialized) =>
            (eloc.downgrade <=> fileVersion \in {"IS_34", "IS_36"})
      /\ (~readOnly /\ ~eloc.arbiter /\ eloc.fcvInitialized /\ ~eloc.fcvDowngraded) =>
            ~eloc.downgrade
      /\ (~readOnly /\ ~eloc.arbiter /\ eloc.fcvInitialized /\ eloc.fcvDowngraded) =>
            (eloc.downgrade <=> (eloc.usingReplSets \/ recoveryTimestamp = 0))

\* a read-only arbiter decided not to downgrade
C13_Witness ==
    /\ eloc.decided /\ readOnly /\ eloc.arbiter /\ ~eloc.downgrade
    /\ ~eloc.fcvInitialized /\ fileVersion = "IS_34"

\* the keys of the metadata that begin with "table:"
TableKeys(metadata) ==
    {MetadataKeys[k] : k \in {j \in metadata :
        Len(MetadataKeys[j]) >= 2 /\ MetadataKeys[j][1] = "table" /\ MetadataKeys[j][2] = ":"}}

\* the compatibility string of the downgrade: release 2.9 for files found at
\* the oldest version while the feature compatibility version is unknown,
\* release 3.0 otherwise
DowngradeString ==
    IF ~eloc.fcvInitialized /\ fileVersion = "IS_34"
      THEN "compatibility=(release=2.9)" ELSE "compatibility=(release=3.0)"

\* C14: a cleanShutdown that does not downgrade makes one call on the
\* connection, a close with use_timestamp of the majority read concern
\* setting; one that downgrades makes, in this order, a close with
\* use_timestamp=false, an open, one setTableLogging for every key of type
\* table in the metadata and for no other key, a reconfigure to the downgrade
\* compatibility string and a second close.
C14_CloseProtocol ==
    LET n == Len(events) IN
    /\ (eloc.decided /\ ~eloc.downgrade) =>
          /\ n <= 1
          /\ epc = "done" => events = <<Ev("close", UseTimestamp(enableMajorityReadConcern))>>
    /\ (eloc.decided /\ eloc.downgrade /\ epc = "done") =>
          /\ n >= 4
          /\ events[1] = Ev("close", UseTimestamp(FALSE))
          /\ events[2].op = "open"
          /\ \A i \in 3..(n - 2) : events[i].op = "setTableLogging"
          /\ {events[i].arg : i \in 3..(n - 2)} = TableKeys(eloc.metadata)
          /\ n - 4 = Cardinality(TableKeys(eloc.metadata))
          /\ events[n - 1] = Ev("reconfigure", <<DowngradeString>>)
          /\ events[n] = Ev("close", UseTimestamp(FALSE))
    /\ (eloc.decided /\ eloc.downgrade /\ n >= 1) =>
          /\ events[1] = Ev("close", UseTimestamp(FALSE))
          /\ n >= 2 => events[2].op = "open"
          /\ \A i \in 3..n : events[i].op = "setTableLogging" =>
                /\ events[i].arg \in TableKeys(eloc.metadata)
                /\ \A j \in 3..(i - 1) : events[j].op = "setTableLogging"

\* a downgrade completed over a metadata with a table and another key with ':'
C14_Witness ==
    /\ epc = "done" /\ eloc.downgrade /\ conn = "closed"
    /\ eloc.metadata = {3, 5}
    /\ Len(events) = 5 /\ events[3] = Ev("setTableLogging", <<"table", ":", "a">>)

\* the opens of the version negotiation made by this start, in order
VersionedOpens ==
    SelectSeq(events, LAMBDA e : e.op = "open" /\ Len(e.arg) = 2 /\ e.arg[2] # "salvage=true")

\* the file version an open at a minimum compatibility version stands for
TagOf(requireMin) ==
    CASE requireMin = "require_min=3.1.0" -> "IS_40"
      [] requireMin = "require_min=3.0.0" -> "IS_36"
      [] requireMin = "require_min=2.9.0" -> "IS_34"

\* C15: _openWiredTiger opens with the minimum compatibility versions 3.1.0,
\* 3.0.0, 2.9.0 in this order; an open that succeeds is the last one, it sets
\* the file version to the version it was made with, and a failed open leaves
\* the file version alone.
C15_VersionNegotiation ==
    /\ [](/\ Len(VersionedOpens) <= 3
          /\ \A i \in 1..Len(VersionedOpens) :
                VersionedOpens[i].arg[2] =
                  <<"require_min=3.1.0", "require_min=3.0.0", "require_min=2.9.0">>[i])
    /\ [][\A ret \in OpenResults : OwtOpen(ret) =>
            LET made == VersionedOpens'[Len(VersionedOpens')] IN
            /\ Len(VersionedOpens') = Len(VersionedOpens) + 1
            /\ IF ret = 0
                 THEN /\ fileVersion' = TagOf(made.arg[2])
                      /\ conn' = "open" /\ epc' = "startWorkers"
                 ELSE /\ fileVersion' = fileVersion /\ conn' = conn
                      /\ epc' = "open" <=> Len(VersionedOpens') < 3]_vars

\* the open at 3.1.0 failed and the open at 3.0.0 succeeded
C15_Witness ==
    /\ epc = "startWorkers" /\ fileVersion = "IS_36" /\ conn = "open"
    /\ Len(VersionedOpens) = 2

\* positions of the opens with salvage=true made by this start
SalvageOpens ==
    {i \in 1..Len(events) :
        events[i].op = "open" /\ Len(events[i].arg) = 2 /\ events[i].arg[2] = "salvage=true"}

\* C16: when the third versioned open fails, _openWiredTiger goes on to the
\* open with salvage=true iff the engine is in repair mode and the error is
\* not EINVAL, and aborts the process otherwise; no salvage open is made in
\* any other situation; a salvage open that succeeds is followed by the
\* onModification call of the repair observer before the constructor goes on,
\* one that fails aborts the process.
C16_SalvageIffRepair ==
    /\ [](/\ SalvageOpens # {} => (inRepairMode /\ Len(VersionedOpens) = 3)
          /\ epc = "salvage" => (inRepairMode /\ eloc.ret \notin {0, EINVAL}
                                   /\ Len(VersionedOpens) = 3 /\ SalvageOpens = {})
          /\ (SalvageOpens # {} /\ epc \in {"startWorkers", "running"}) =>
                \E i \in SalvageOpens :
                   /\ i + 1 = Len(events)
                   /\ events[i + 1].op = "onModification")
    /\ [][/\ \A ret \in OpenResults :
               (OwtOpen(ret) /\ ret # 0 /\ Len(VersionedOpens) = 2) =>
                  /\ epc' = "salvage" <=> (inRepairMode /\ ret # EINVAL)
                  /\ epc' # "salvage" => (crashed' /\ epc' = "aborted")
                  /\ SalvageOpens' = {}
          /\ \A ret \in OpenResults, v \in StartupVersions :
               OwtSalvage(ret, v) =>
                  /\ Cardinality(SalvageOpens') = 1
                  /\ ret # 0 => (crashed' /\ epc' = "aborted" /\ conn' = conn)]_vars

\* the engine went on after a salvage open in repair mode
C16_Witness ==
    /\ epc = "startWorkers" /\ conn = "open" /\ inRepairMode
    /\ Len(events) >= 5
    /\ events[Len(events)].op = "onModification"
    /\ Len(events) - 1 \in SalvageOpens

\* the calls of this start on the main instance and on the journal directory
JournalCalls ==
    SelectSeq(events, LAMBDA e : e.op \in {"open", "close"} \/ e.arg = <<"journal">>)

\* the opens with the journaling configuration made by the transition
RecoveryOpens == {i \in 1..Len(events) : events[i] = Ev("open", <<JournalingConfig>>)}

\* C17: a start that is not durable and not read-only and finds a journal
\* directory opens with the journaling configuration, closes, removes the
\* journal directory and then opens with the log disabled, in this order; the
\* directory is removed only when that open and that close succeeded; a
\* read-only start makes no open with the journaling configuration and never
\* removes the journal directory.
C17_NojournalTransition ==
    /\ [](/\ readOnly => RecoveryOpens = {}
          /\ (~durable /\ ~readOnly /\ fs.journal) => VersionedOpens = <<>>
          /\ RecoveryOpens # {} =>
                /\ ~durable /\ ~readOnly
                /\ \A i \in 1..Len(JournalCalls) :
                      /\ i = 1 => JournalCalls[i] = Ev("open", <<JournalingConfig>>)
                      /\ i = 2 => JournalCalls[i] = Ev("close", <<>>)
                      /\ i = 3 => JournalCalls[i] = Ev("remove_all", <<"journal">>)
                      /\ i >= 4 => /\ JournalCalls[i].op = "open"
                                   /\ JournalCalls[i].arg[1] = "log=(enabled=false)"
                                   /\ ~fs.journal)
    /\ [][/\ (CtorConfig /\ ~durable /\ ~readOnly /\ fs.journal) => epc' = "njOpen"
          /\ (fs.journal /\ ~fs'.journal) =>
                /\ ~readOnly
                /\ conn = "closed"
                /\ JournalCalls = <<Ev("open", <<JournalingConfig>>), Ev("close", <<>>)>>
                /\ JournalCalls' = Append(JournalCalls, Ev("remove_all", <<"journal">>))]_vars

\* the transition was made and the engine opened without log
C17_Witness ==
    /\ epc = "startWorkers" /\ ~durable /\ ~readOnly /\ ~fs.journal
    /\ JournalCalls = <<Ev("open", <<JournalingConfig>>), Ev("close", <<>>),
                        Ev("remove_all", <<"journal">>),
                        Ev("open", <<"log=(enabled=false)", "require_min=3.1.0">>)>>

\* C18 as claimed: whenever the constructor starts the checkpoint thread with
\* a recovery timestamp that is not null, the thread starts with its stable
\* and its initial data timestamp both equal to the recovery timestamp,
\* whatever the majority read concern setting.
C18_Original ==
    [][\A rec \in Ts, fp \in BOOLEAN, ok \in BOOLEAN :
         (CtorStartWorkers(rec, fp, ok) /\ ~readOnly /\ ~ephemeral /\ rec # 0) =>
            /\ ckptPc' = "top"
            /\ initialDataTimestamp' = rec
            /\ stableTimestamp' = rec]_vars

\* C18 amended: whenever the constructor starts the checkpoint thread with a
\* recovery timestamp that is not null, the thread starts with its initial
\* data timestamp equal to the recovery timestamp; its stable timestamp
\* equals the recovery timestamp when majority read concern is enabled and
\* stays 0 when it is disabled.  A read-only or ephemeral engine starts no
\* checkpoint thread.
C18_SeededWithHistory ==
    [][\A rec \in Ts, fp \in BOOLEAN, ok \in BOOLEAN :
         CtorStartWorkers(rec, fp, ok) =>
            /\ recoveryTimestamp' = rec
            /\ (readOnly \/ ephemeral) => ckptPc' = "null"
            /\ (~readOnly /\ ~ephemeral) =>
                  /\ ckptPc' = "top" /\ ~ckptShuttingDown'
                  /\ initialDataTimestamp' = rec
                  /\ stableTimestamp' = (IF enableMajorityReadConcern THEN rec ELSE 0)]_vars

\* a checkpoint thread started without majority read concern: initial data
\* at the recovery timestamp, stable at 0
C18_Witness ==
    /\ epc = "running" /\ ckptPc = "top" /\ ~enableMajorityReadConcern
    /\ recoveryTimestamp # 0
    /\ initialDataTimestamp = recoveryTimestamp
    /\ stableTimestamp = 0

\* C19: when the constructor has thrown "master key rotation finished
\* successfully", key.db is the rotation instance with the records of the
\* primary the rotation started from, key.db.rotated is that primary,
\* key.db.rotation does not exist, and this start made no call on the main
\* instance and constructed no engine.
C19_RotationCompleted ==
    eloc.error = "rotationFinished" =>
      /\ epc = "threw"
      /\ eloc.oldPrimary.exists /\ eloc.oldPrimary.init
      /\ fs.keydb.exists /\ fs.keydb.init
      /\ fs.keydb.recs = eloc.oldPrimary.recs
      /\ fs.rotated = eloc.oldPrimary
      /\ ~fs.rotation.exists
      /\ conn = "none" /\ fileVersion = "unset" /\ ~hasKeyDB
      /\ \A i \in 1..Len(events) : events[i].op \notin {"open", "close"}

\* a rotation of a key DB with a record ran to completion
C19_Witness ==
    /\ eloc.error = "rotationFinished"
    /\ fs.keydb.recs = KeyRecords /\ fs.rotated.recs = KeyRecords
    /\ fs.keydb.key # fs.rotated.key
    /\ events[Len(events)] = Ev("rename", <<"key.db.rotation", "key.db">>)

\* C20: a start with encryption enabled that finds key.db.rotation, left by
\* an interrupted rotation, is fatal: the constructor does not get to open
\* the main instance and no engine comes up.
C20_RotationDirFatal ==
    (eloc.rotationAtStart /\ encryptionParams.enableEncryption) =>
      /\ epc \notin {"open", "salvage", "startWorkers", "running"}
      /\ conn = "none"

\* the smallest of ts, the oplog read timestamp when it is not zero and the
\* local snapshot timestamp when there is one
MinOfDefined(ts, oplogRead, localSnap) ==
    LET cands == {ts} \cup (IF oplogRead # 0 THEN {oplogRead} ELSE {})
                      \cup (IF localSnap # None THEN {localSnap} ELSE {})
    IN  CHOOSE m \in cands : \A x \in cands : m <= x

\* C24: a setOldestTimestamp(ts, force = false) call with ts # 0 that gets
\* past the fail point pushes exactly one oldest_timestamp, whose value is
\* the minimum of ts, the oplog read timestamp if that is not zero and the
\* local snapshot timestamp if there is one; with an oplog read timestamp
\* of zero and no local snapshot the value pushed is ts.
C24_PushedIsMinimum ==
    [][\A c \in Callers, o \in Ts, l \in Snapshots :
          (SetOldestPush(c, FALSE, o, l) /\ ~cloc[c].force /\ cloc[c].ts # 0) =>
             /\ cloc'[c].pushes =
                   Append(cloc[c].pushes,
                          [kind |-> "oldest", val |-> MinOfDefined(cloc[c].ts, o, l)])
             /\ cloc'[c].val = MinOfDefined(cloc[c].ts, o, l)
             /\ (o = 0 /\ l = None) => cloc'[c].val = cloc[c].ts]_vars

C24_Witness ==
    \E c \in Callers :
      /\ cpc[c] = "soUpdate" /\ cloc[c].op = "setOldest" /\ ~cloc[c].force
      /\ cloc[c].ts = 3
      /\ cloc[c].pushes = <<[kind |-> "oldest", val |-> 1]>>

\* C25: a setOldestTimestamp(ts, force = true) call with ts # 0 that gets
\* past the fail point pushes force=true with oldest_timestamp and
\* commit_timestamp both equal to ts, whatever the oplog read timestamp and
\* the local snapshot are, and its store sets the cached oldest timestamp to
\* ts, also when that moves it down.
C25_ForcedOldest ==
    [][\A c \in Callers :
          /\ \A o \in Ts, l \in Snapshots :
                (SetOldestPush(c, FALSE, o, l) /\ cloc[c].force /\ cloc[c].ts # 0) =>
                   /\ cloc'[c].pushes =
                         Append(cloc[c].pushes,
                                [kind |-> "oldest", val |-> cloc[c].ts,
                                 commit |-> cloc[c].ts, force |-> TRUE])
                   /\ cpc'[c] = "soUpdate"
          /\ (SetOldestUpdate(c) /\ cloc[c].force) =>
                /\ oldestTimestamp' = cloc[c].ts
                /\ cpc'[c] = "ret"]_vars

C25_Witness ==
    \E c \in Callers :
      /\ cpc[c] = "ret" /\ cloc[c].op = "setOldest" /\ cloc[c].force
      /\ cloc[c].ts = 1
      /\ oldestTimestamp = 1
      /\ Len(cloc[c].pushes) = 1 /\ cloc[c].pushes[1].commit = 1

\* the step is the checkpoint call of a tick and the call succeeded
CheckpointSucceeded ==
    ckptPc \in {"branch", "stableCkpt"} /\ ckptPc' = "keydb"

\* C26: a step changes _lastStableCheckpointTimestamp only if it is the
\* checkpoint of a tick without majority read concern whose sampled initial
\* data timestamp is above 1, which stores UINT64_MAX, or the successful
\* checkpoint of a stable tick, which stores the stable timestamp the tick
\* loaded before it called checkpoint; both ticks do store after a
\* successful checkpoint, and the ticks with initial data <= 1 and the
\* skipped ticks store nothing.
C26_LastStablePublished ==
    [][/\ lastStableCheckpointTimestamp' # lastStableCheckpointTimestamp =>
            \/ /\ ckptPc = "branch" /\ CheckpointSucceeded
               /\ ckptLoc.initData > 1 /\ ~enableMajorityReadConcern
               /\ lastStableCheckpointTimestamp' = UINT64_MAX
            \/ /\ ckptPc = "stableCkpt" /\ CheckpointSucceeded
               /\ lastStableCheckpointTimestamp' = ckptLoc.stable2
       /\ (ckptPc = "branch" /\ CheckpointSucceeded
             /\ ckptLoc.initData > 1 /\ ~enableMajorityReadConcern) =>
            lastStableCheckpointTimestamp' = UINT64_MAX
       /\ (ckptPc = "stableCkpt" /\ CheckpointSucceeded) =>
            lastStableCheckpointTimestamp' = ckptLoc.stable2
       /\ (ckptPc = "branch" /\ ckptPc' = "stableCkpt") =>
            /\ ckptLoc'.stable2 = stableTimestamp
            /\ UNCHANGED lastStableCheckpointTimestamp
       /\ (ckptPc = "branch"
             /\ (ckptLoc.initData <= 1
                   \/ (enableMajorityReadConcern /\ ckptLoc.stable < ckptLoc.initData))) =>
            UNCHANGED lastStableCheckpointTimestamp]_vars

\* a stable tick has published a value that the stable timestamp had left
\* by the time the checkpoint returned
C26_Witness ==
    /\ ckptPc = "keydb" /\ ckptLoc.kind = "stable"
    /\ lastStableCheckpointTimestamp = ckptLoc.stable2
    /\ lastStableCheckpointTimestamp # stableTimestamp
    /\ lastStableCheckpointTimestamp # 0

\* the step is the loop test of the checkpoint thread
LoopTestStep == ckptPc = "top" /\ ckptPc' # "top"

ReaperHeld == IF rpPc = "requeue" THEN 1 ELSE 0

\* drop attempts the running dropSomeQueuedIdents call has made
ReaperAttempts == rpLoc.i + ReaperHeld

C30_WorkerStableWasPushed ==
    /\ stableTimestamp = 0 \/ stableReceived
    /\ \A c \in Callers :
          cpc[c] = "ssSwap" => PushedStable(cloc[c].pushes, cloc[c].ts)

\* two calls are in progress and the thread holds the value of one of them
C30_Witness ==
    \E c, d \in Callers :
      /\ c # d
      /\ cpc[c] = "ssTrigger" /\ cpc[d] = "ssSwap"
      /\ cloc[c].ts # cloc[d].ts
      /\ stableTimestamp = cloc[c].ts /\ stableTimestamp # 0

\* C29: a haveDropsQueued call returns true only when the queue is not
\* empty at its check; no call gets past the rate gate less than one second
\* after another call got past it; and a call that finds the mutex held by
\* another thread returns false at once.
C29_RateLimitedQuery ==
    [][\A c \in Callers :
          /\ (HdqTryLock(c) /\ hloc'[c].ret = "true") => identToDrop # <<>>
          /\ (HaveDropsQueued(c) /\ lastGatePass # None
                /\ clock - lastGatePass < kDropsQueuedCheckMillis) =>
                (hpc'[c] = "ret" /\ hloc'[c].ret = "false")
          /\ (hpc[c] = "tryLock" /\ identToDropMutex # "free") =>
                ENABLED HdqTryLock(c)
          /\ (HdqTryLock(c) /\ identToDropMutex # "free") => hloc'[c].ret = "false"]_vars

\* the positions of hotBackup in phase 2 and after its return
HbAfterPopulate == {"copy", "s3", "put", "done"}

\* the calls of a backup up to the release of the lock, when all succeed
HbLockedWindow == <<"lock", "open_main", "open_keydb", "unlock">>

\* C21: in a hot backup the global read lock is taken only with a key DB;
\* it is held while the backup cursor of the main instance and then that of
\* the key DB are opened; it is released before the first copy or upload
\* and on every return, failures included; without a key DB it is never
\* taken.
C21_BackupLock ==
    /\ [](bk.global => hasKeyDB)
    /\ [](~hasKeyDB => \A k \in 1..Len(bk.calls) : bk.calls[k] # "lock")
    /\ [](bk.pc \in HbAfterPopulate => ~bk.global)
    /\ []((hasKeyDB /\ bk.pc \in {"copy", "s3", "put"}) =>
            SubSeq(bk.calls, 1, 4) = HbLockedWindow)
    /\ [][(hasKeyDB /\ Len(bk'.dbList) > Len(bk.dbList)) =>
            (bk.global /\ bk'.global
             /\ bk'.dbList \in {<<"main">>, <<"main", "keydb">>})]_vars
    /\ [][(Len(bk'.calls) > Len(bk.calls)
            /\ bk'.calls[Len(bk'.calls)] \in {"copy", "put"}) => ~bk.global]_vars

\* C21 witness: a backup of an engine with a key DB has copied its files
C21_Witness ==
    /\ hasKeyDB /\ bk.pc = "done" /\ bk.ret = "OK"
    /\ SubSeq(bk.calls, 1, 4) = HbLockedWindow
    /\ Len(bk.calls) > 4

\* the repair made the call name, with the result rc
SvCalled(name, rc) == \E k \in 1..Len(sv.calls) : sv.calls[k] = <<name, rc>>

\* the repair made the call name
SvTried(name) == \E rc \in VerifyResults : SvCalled(name, rc)

\* C22: _salvageIfNeeded returns OK only when verify returned 0 or EBUSY
\* and neither salvage nor drop nor create was called; when salvage
\* succeeded or the rebuild got to a successful create it returns
\* DataModifiedByRepair; salvage is called only after a verify that returned
\* something other than 0, EBUSY and ENOENT.
C22_SalvageStatus ==
    /\ (sv.pc = "done" /\ sv.ret = "OK" /\ SvTried("verify")) =>
          /\ sv.rc \in {0, EBUSY}
          /\ ~SvTried("salvage") /\ ~SvTried("drop") /\ ~SvTried("create")
    /\ (sv.pc = "done" /\ (SvCalled("salvage", 0) \/ SvCalled("create", 0))) =>
          sv.ret = "DataModifiedByRepair"
    /\ SvTried("salvage") =>
          (SvTried("verify") /\ sv.rc \notin {0, EBUSY, ENOENT})

\* C22 witness: a rebuild after a failed salvage has re-created the table
C22_Witness ==
    /\ sv.pc = "done" /\ sv.ret = "DataModifiedByRepair"
    /\ SvCalled("salvage", EINVAL) /\ SvCalled("create", 0)

\* C23: in the migration of the key DB out of a legacy directory, whatever
\* its depth, every user file stays at its place and is not copied; after
\* the migration every other file is under key.db at the same relative
\* path and gone from the legacy tree; a directory is deleted only when no
\* file is left beneath it; and the remove is never tried on a directory
\* with a user file somewhere beneath it.
C23_MigrationKeepsUserFiles ==
    /\ [](\A f \in mig.initial : IsUserFile(f) => (f \in mig.legacy /\ f \notin mig.keydb))
    /\ [](mig.pc = "done" =>
            \A f \in mig.initial : ~IsUserFile(f) => (f \in mig.keydb /\ f \notin mig.legacy))
    /\ [][\A d \in mig.dirs \ mig'.dirs : \A f \in mig.legacy : ~Beneath(f.dir, d)]_vars
    /\ [](\A d \in mig.attempts :
            \A f \in mig.legacy : IsUserFile(f) => ~Beneath(f.dir, d))

\* C31: with two or more threads in setOldestTimestamp without force, the
\* cached oldest timestamp does not decrease in any step.
C31_ConcurrentOldestMonotonic ==
    [][oldestTimestamp' >= oldestTimestamp]_vars

\* the checkpoint thread calls checkpoint on the main instance or on the key DB
IssuesCheckpoint ==
    \/ ckptPc = "branch" /\ ckptPc' \in {"keydb", "top"} /\ ckptLoc'.kind # "skip"
    \/ ckptPc = "stableCkpt" /\ ckptPc' # ckptPc
    \/ ckptPc = "keydb" /\ hasKeyDB /\ ckptPc' # ckptPc

\* the sweeper calls closeExpiredIdleSessions
ClosesIdleSessions == swPc = "sweep" /\ swPc' = "top"

\* C32 as stated: once the shutdown flag of a worker is set, the checkpoint
\* thread issues no checkpoint and the sweeper closes no idle sessions.
C32_Original ==
    [][/\ ckptShuttingDown => ~IssuesCheckpoint
       /\ swShuttingDown => ~ClosesIdleSessions]_vars

\* C32: once the shutdown flag of a worker is set, the worker starts no new
\* iteration: the next test of the flag at the top of its loop ends the
\* thread.  The iteration in which the flag was set still does its work.
C32_NoNewIteration ==
    [][/\ (ckptShuttingDown /\ ckptPc = "top" /\ ckptPc' # ckptPc) => ckptPc' = "exited"
       /\ (swShuttingDown /\ swPc = "top" /\ swPc' # swPc) => swPc' = "exited"
       /\ (ckptShuttingDown /\ ckptPc' = "waiting") => ckptPc = "waiting"
       /\ (swShuttingDown /\ swPc' = "sweep") => swPc = "sweep"]_vars

\* C32 witness: both workers have left their loops on the flag, and
\* cleanShutdown has joined them
C32_Witness ==
    /\ ckptShuttingDown /\ ckptPc = "exited"
    /\ swShuttingDown /\ swPc = "exited"
    /\ epc = "decide"

\* C33: each shutdown() of a worker returns with the worker joined, wherever
\* the worker was in its loop when the flag was set, when the threads are
\* scheduled, the storage calls return and the timed waits end.
C33_ShutdownTerminates ==
    /\ (epc = "sweeperWait") ~> (epc = "flusher" /\ swPc = "exited")
    /\ (epc = "flusherWait") ~> (epc = "checkpointer" /\ jfPc = "exited")
    /\ (epc = "checkpointerWait") ~> (epc = "decide" /\ ckptPc = "exited")

\* C33 witness: the three shutdown() calls have returned, each flag is set
\* and each thread has left its loop
C33_Witness ==
    /\ epc = "decide"
    /\ swPc = "exited" /\ jfPc = "exited" /\ ckptPc = "exited"
    /\ swShuttingDown /\ jfShuttingDown /\ ckptShuttingDown

\* a recoverToStableTimestamp call of c has returned to its caller
RtsReturned(c) == cpc[c] = "ret" /\ cloc[c].op = "recoverToStable"

\* C34: whatever a recoverToStableTimestamp call returns, the journal
\* flusher and the checkpoint thread it shut down are running again when it
\* returns.
C34_WorkersRunAfterReturn ==
    \A c \in Callers :
      RtsReturned(c) =>
        /\ cloc[c].jfDown => (jfPc # "exited" /\ ~jfShuttingDown)
        /\ cloc[c].ckDown => (ckptPc # "exited" /\ ~ckptShuttingDown)

\* C35: in an engine that supports recoverToStableTimestamp, the call makes
\* no call on a journal flusher that was never created.
C35_NoAbsentFlusherUsed ==
    [][\A c \in Callers :
         (cpc[c] = "rtsJf" /\ cpc'[c] # "rtsJf") => jfPc # "null"]_vars

\* C36: whenever shouldDowngrade decided for a downgrade, getDowngradeString
\* on the same feature compatibility state and startup version returns a
\* compatibility string and its invariant holds.
C36_DowngradeStringDefined ==
    (eloc.decided /\ eloc.downgrade) =>
        GetDowngradeString(eloc.fcvInitialized, fileVersion) # "invariant"

\* the step calls close on a connection
CallsClose ==
    /\ Len(events') = Len(events) + 1
    /\ events'[Len(events')].op = "close"

\* C37: over the lifetime of the engine no close is called on a connection
\* that is closed already, and after a completed cleanShutdown the
\* destructor does not go to the workers again.
C37_ClosedOnce ==
    [][/\ conn = "closed" => ~CallsClose
       /\ (epc = "done" /\ epc' # epc) => epc' = "destroyed"]_vars

\* ranks of the entries dropIdent has placed on the queue and no drop of the
\* reaper has returned 0 for
PlacedNotDropped == 1..(nextSeq - 1)

\* ranks of the entries on the queue
QueuedSeqs == {identToDrop[k].seq : k \in 1..Len(identToDrop)}

C39_ReaperToleratesMissing ==
    [][(ReaperTake(ENOENT) /\ Len(identToDrop') < Len(identToDrop)) =>
          /\ ~crashed'
          /\ rpPc' = "loop" /\ rpLoc'.i = rpLoc.i + 1
          /\ identToDrop' = Renumber(Tail(identToDrop), Head(identToDrop).seq)]_vars

\* the calls made on the oplog manager alternate, the first one a start
OmCallsAlternate ==
    \A k \in 1..Len(om.calls) :
      om.calls[k] = (IF k % 2 = 1 THEN "start" ELSE "halt")

\* C40: _oplogManagerCount is never negative and the oplog manager runs
\* exactly when it is above 0; the manager is started only by the call that
\* takes the count from 0 to 1 and halted only by the call that takes it
\* from 1 to 0, so starts and halts alternate; the count changes by one at a
\* time; a haltOplogManager at count 0 fails its invariant, with the count
\* and the manager left as they were.
C40_OplogRefCount ==
    /\ [](om.count >= 0 /\ (om.running <=> om.count > 0) /\ OmCallsAlternate)
    /\ [][/\ (~om.running /\ om'.running) => (om.count = 0 /\ om'.count = 1)
          /\ (om.running /\ ~om'.running) => (om.count = 1 /\ om'.count = 0)
          /\ om'.calls # om.calls =>
                /\ Len(om'.calls) = Len(om.calls) + 1
                /\ om'.running # om.running
          /\ om'.count # om.count =>
                \/ om'.count = om.count + 1 /\ \E c \in Callers : om.pc[c] = "start"
                \/ om'.count = om.count - 1 /\ \E c \in Callers : om.pc[c] = "halt"
          /\ (\E c \in Callers : om.pc[c] = "halt" /\ om'.pc[c] # "halt") /\ om.count = 0 =>
                /\ crashed'
                /\ om'.count = 0 /\ om'.calls = om.calls /\ om'.running = om.running]_vars

\* two references were taken and given back, then one more was taken: the
\* manager was started, halted and started again
C40_Witness ==
    /\ om.count = 1 /\ om.running /\ om.calls = <<"start", "halt", "start">>
    /\ \A c \in Callers : om.pc[c] = "idle"
====
